---- MODULE Spec2Model ----
(***************************************************************************)
(* Model of scripts/pull_all_devices.py: the incremental pull of one       *)
(* device's uplinks from the TTN storage endpoint (device_pull), the HTTP  *)
(* retry helper (_do_get_with_retries) and the merge of the retrieved      *)
(* rows with the persisted parquet/CSV history.                            *)
(*                                                                         *)
(* Time is counted in ticks; one second is TicksPerSecond ticks, so that   *)
(* timestamps carry a sub-second part (TTN timestamps have nanoseconds)    *)
(* and the second-precision formatting of the "after" parameter is a real  *)
(* truncation.  A timestamp value is <<t>>; NaT (null / unparsable) is     *)
(* <<>>.  The page caps limit_primary and limit_fallback are scaled down   *)
(* from 200 and 100, keeping limit_fallback < limit_primary.               *)
(***************************************************************************)
EXTENDS Integers, Sequences, FiniteSets, TLC

VARIABLES
    server,         \* uplinks held by the storage endpoint for the device
    parq,           \* data/<dev>.parquet : [st, rows]
    csv,            \* data/<dev>.csv     : [st, rows]
    AFTER,          \* start of the lookback window of the current run
    pc,             \* position of device_pull
    current_after,  \* device_pull local
    used_after,     \* device_pull local
    all_rows,       \* device_pull local
    reqlog,         \* history: the requests of the current / last pull
    old,            \* history: the files as they were when the pull began
    result,         \* history: what the last device_pull returned
    rt,             \* state of one _do_get_with_retries call
    mrg,            \* state of the merge-twice experiment
    lp,             \* state of the main device loop
    call            \* one call of a pure function: its input and its result

vars == <<server, parq, csv, AFTER, pc, current_after, used_after, all_rows,
          reqlog, old, result, rt, mrg, lp, call>>

pullvars == <<server, parq, csv, AFTER, pc, current_after, used_after,
              all_rows, reqlog, old, result>>

----------------------------------------------------------------------------
(* Bounds of the model *)

TicksPerSecond == 2
MaxTs == 2
limit_primary == 2
limit_fallback == 1
MaxServer == limit_primary + 1
MaxDevs == 2
MaxLines == 2
MaxRx == 2
MaxPage == 3
MaxVal == 2
MaxRows == 2

(* Program constants *)

MAX_RETRIES == 5
RETRY_CODES == {429, 500, 502, 503, 504}

----------------------------------------------------------------------------
(* Values *)

NaT == <<>>
dev == "dev"

Max2(a, b) == IF a >= b THEN a ELSE b

\* An uplink object as the endpoint holds it: the instant the server ordered
\* it by, whether _best_ts finds a parsable timestamp in it, the port and the
\* decoded payload.
Variants == << [f_port |-> 1, payload_json |-> "a", ts_ok |-> TRUE],
               [f_port |-> 2, payload_json |-> "b", ts_ok |-> TRUE],
               [f_port |-> 1, payload_json |-> "a", ts_ok |-> FALSE] >>

Uplinks == [at : 1..MaxTs, v : 1..Len(Variants)]

\* The row device_pull builds from one uplink object (rssi and snr, which
\* take no part in paging, merging or de-duplication, are left out).
Row(o) ==
    [received_at  |-> IF Variants[o.v].ts_ok THEN <<o.at>> ELSE NaT,
     device_id    |-> dev,
     f_port       |-> Variants[o.v].f_port,
     payload_json |-> Variants[o.v].payload_json]

Rows == {Row(o) : o \in Uplinks}

\* strftime("%Y-%m-%dT%H:%M:%SZ"): the sub-second part is dropped.
FormatSeconds(t) == t - (t % TicksPerSecond)

\* AFTER = (now - AFTER_DAYS days).strftime(...): a whole second, either
\* before every stored uplink or later than one second past the last one.
AfterValues == {0, FormatSeconds(MaxTs) + TicksPerSecond}

----------------------------------------------------------------------------
(* The storage endpoint: earliest records first, honouring limit and after *)

Before(a, b) == a.at < b.at \/ (a.at = b.at /\ a.v < b.v)

RECURSIVE InOrder(_)
InOrder(S) ==
    IF S = {} THEN <<>>
    ELSE LET m == CHOOSE x \in S : \A y \in S : x = y \/ Before(x, y)
         IN  <<m>> \o InOrder(S \ {m})

Eligible(after) == {o \in server : after = <<>> \/ o.at >= after[1]}

ServerPage(limit, after) ==
    LET all == InOrder(Eligible(after))
    IN  IF Len(all) <= limit THEN all ELSE SubSeq(all, 1, limit)

----------------------------------------------------------------------------
(* pandas operations on frames (sequences of rows) *)

Key(r) == <<r.device_id, r.received_at, r.f_port, r.payload_json>>

\* df.dropna(subset=["received_at"])
DropNa(df) == SelectSeq(df, LAMBDA r : r.received_at # NaT)

\* Variant: no de-duplication at all.
DropDuplicatesKeepAll(df) == df

\* df.drop_duplicates(subset=subset_cols): the first row of each key is kept.
RECURSIVE DropDuplicates(_)
DropDuplicates(df) ==
    IF df = <<>> THEN <<>>
    ELSE LET n    == Len(df)
             init == DropDuplicates(SubSeq(df, 1, n - 1))
         IN  IF \E i \in 1..(n - 1) : Key(df[i]) = Key(df[n])
             THEN init ELSE Append(init, df[n])

TsOf(r) == r.received_at[1]

IsSorted(df) ==
    \A i \in 1..Len(df) : \A j \in 1..Len(df) :
        i < j => TsOf(df[i]) <= TsOf(df[j])

RemoveAt(df, i) == SubSeq(df, 1, i - 1) \o SubSeq(df, i + 1, Len(df))

\* df.sort_values("received_at") with the default kind (quicksort), which
\* is not a stable sort: rows with equal received_at come out in an order
\* the library chooses.  The set of frames the call may return.
RECURSIVE SortValues(_)
SortValues(df) ==
    IF df = <<>> THEN {<<>>}
    ELSE LET first == {i \in 1..Len(df) :
                          \A j \in 1..Len(df) : TsOf(df[i]) <= TsOf(df[j])}
         IN  UNION {{<<df[i]>> \o s : s \in SortValues(RemoveAt(df, i))} :
                    i \in first}

\* Variant: the new frame replaces the history instead of extending it.
ConcatNewOnly(df_old, df_new) == IF df_new = <<>> THEN df_old ELSE df_new

\* pd.concat / the choice between the old and the new frame.
ConcatFrames(df_old, df_new) ==
    IF df_old # <<>> /\ df_new # <<>> THEN df_old \o df_new
    ELSE IF df_new = <<>> THEN df_old ELSE df_new

\* The frames device_pull may end with, given the history it read and the
\* rows it collected: build df_new, concatenate, de-duplicate, sort.
MergeFrames(df_old, rows) ==
    LET news == IF rows = <<>> THEN {<<>>} ELSE SortValues(DropNa(rows))
    IN  UNION {LET df == ConcatFrames(df_old, df_new)
               IN  IF df = <<>> THEN {<<>>}
                   ELSE SortValues(DropDuplicates(df)) : df_new \in news}

----------------------------------------------------------------------------
(* The persisted history: two files, each missing, unreadable or readable *)

Missing == [st |-> "missing", rows |-> <<>>]
Corrupt == [st |-> "corrupt", rows |-> <<>>]
Stored(df) == [st |-> "ok", rows |-> df]

Exists(f) == f.st # "missing"

\* Variant: no CSV fallback.
ReadParquetOnly(p, c) == IF p.st = "ok" THEN p.rows ELSE <<>>

\* Parquet preferred, CSV as the fallback, nothing when both reads fail.
\* read_csv followed by to_datetime is taken to give back the rows written.
ReadStored(p, c) ==
    IF p.st = "ok" THEN p.rows
    ELSE IF c.st = "ok" THEN c.rows
    ELSE <<>>

ReadOld(p, c) == IF Exists(p) \/ Exists(c) THEN ReadStored(p, c) ELSE <<>>

MaxTsOf(df) == CHOOSE t \in {TsOf(df[i]) : i \in 1..Len(df)} :
                  \A j \in 1..Len(df) : TsOf(df[j]) <= t

\* The cursor device_pull starts with: <<current_after, used_after>>.
StartCursor(after0, df_old_ts) ==
    IF df_old_ts # <<>> /\ DropNa(df_old_ts) # <<>>
    THEN <<Max2(after0, MaxTsOf(DropNa(df_old_ts)) + TicksPerSecond), TRUE>>
    ELSE <<after0, FALSE>>

\* to_parquet / to_csv either succeeds or raises and leaves the file as it
\* was (torn writes are not modelled; a file that does not read is one the
\* run finds that way, e.g. with no parquet engine installed).
WriteOutcomes == {"ok", "keep"}

Written(f, df, w) == IF w = "ok" THEN Stored(df) ELSE f

----------------------------------------------------------------------------
(* device_pull *)

\* What one call of _do_get_with_retries can end with, as device_pull tells
\* the cases apart: an OK response, a 400, another non-OK response with a
\* body, a non-OK response without a body, or a propagated exception.  (A
\* 400 without a body is handled like "bad400" by the primary request and
\* the smaller-limit retry, and like "err_blank" by the last fallback.)
Outcomes == {"ok", "bad400", "err", "err_blank", "exc"}

IsOk(resp) == resp = "ok"
Is400(resp) == resp = "bad400"
IsBlank(resp, page) == resp = "err_blank" \/ (resp = "ok" /\ page = <<>>)

\* params["after"], when used_after
AfterParam == IF used_after THEN <<FormatSeconds(current_after)>> ELSE <<>>

PageRows(page) == [i \in 1..Len(page) |-> Row(page[i])]

SeenMax(rows) == IF DropNa(rows) = <<>> THEN 0 ELSE MaxTsOf(DropNa(rows))

\* eff_limit = int(params.get("limit") or limit_primary): params is the
\* dictionary of the primary request, whichever request produced the page.
EffLimit(request_limit) == limit_primary

LogEntry(kind, limit, after, resp, page) ==
    [kind    |-> kind,
     limit   |-> limit,
     after   |-> after,
     resp    |-> resp,
     n       |-> IF IsOk(resp) THEN Len(page) ELSE 0,
     has_max |-> IsOk(resp) /\ DropNa(PageRows(page)) # <<>>,
     seen    |-> SeenMax(all_rows)]

\* Variant: the rows retrieved so far are returned in every case.
ReturnedRetrieved(kind, df) ==
    [kind |-> kind, df |-> all_rows, wp |-> "none", wc |-> "none"]

\* What device_pull returned, and how the two history writes went.
Returned(kind, df) == [kind |-> kind, df |-> df, wp |-> "none", wc |-> "none"]

\* Variant: the cursor is the last instant seen itself.
NextCursorSameInstant(max_ts) == max_ts

\* current_after = max_ts + pd.Timedelta(seconds=1)
NextCursor(max_ts) == max_ts + TicksPerSecond

\* Variant: only a blank answer leads to the request without 'after'.
NeedsNoAfterOnlyBlank(resp, page) == IsBlank(resp, page)

\* "if not r2.ok or not r2.text.strip()": the smaller-limit retry did not
\* deliver, so the request is repeated without 'after'.
NeedsNoAfter(resp, page) == ~IsOk(resp) \/ IsBlank(resp, page)

\* The part of the loop body after the response r is settled (lines 243-286);
\* ua is used_after as the fallbacks left it.
Handle(resp, page, limit, ua) ==
    IF resp = "exc" THEN
        /\ pc' = "idle"
        /\ result' = Returned("fatal", <<>>)
        /\ UNCHANGED <<current_after, all_rows>>
        /\ used_after' = ua
    ELSE IF IsBlank(resp, page) THEN
        /\ pc' = "merge"
        /\ used_after' = ua
        /\ UNCHANGED <<current_after, all_rows, result>>
    ELSE IF ~IsOk(resp) THEN
        /\ pc' = "idle"
        /\ result' = Returned("giveup", <<>>)
        /\ used_after' = ua
        /\ UNCHANGED <<current_after, all_rows>>
    ELSE
        /\ all_rows' = all_rows \o PageRows(page)
        /\ UNCHANGED result
        /\ IF Len(page) < EffLimit(limit) \/ DropNa(PageRows(page)) = <<>>
           THEN /\ pc' = "merge"
                /\ used_after' = ua
                /\ UNCHANGED current_after
           ELSE /\ current_after' = NextCursor(MaxTsOf(DropNa(PageRows(page))))
                /\ used_after' = TRUE
                /\ pc' = "get"

\* Entry of device_pull up to the page loop (lines 188-216).
StartPull ==
    /\ pc = "idle"
    /\ \E a \in AfterValues : a >= AFTER /\ AFTER' = a
    /\ LET c == StartCursor(AFTER', ReadOld(parq, csv))
       IN  current_after' = c[1] /\ used_after' = c[2]
    /\ all_rows' = <<>>
    /\ reqlog' = <<>>
    /\ old' = [parq |-> parq, csv |-> csv]
    /\ result' = Returned("none", <<>>)
    /\ pc' = "get"
    /\ UNCHANGED <<server, parq, csv, rt, mrg, lp, call>>

\* The primary request of one loop iteration (lines 219-226).
PageRequest ==
    /\ pc = "get"
    /\ \E resp \in Outcomes :
         LET page == ServerPage(limit_primary, AfterParam)
         IN  /\ reqlog' = Append(reqlog,
                    LogEntry("page", limit_primary, AfterParam, resp, page))
             /\ IF Is400(resp)
                THEN /\ pc' = "fb_limit"
                     /\ UNCHANGED <<current_after, used_after, all_rows, result>>
                ELSE Handle(resp, page, limit_primary, used_after)
    /\ UNCHANGED <<server, parq, csv, AFTER, old, rt, mrg, lp, call>>

\* Fallback 1: the same request with the smaller limit (lines 229-233, 241).
FallbackLimit ==
    /\ pc = "fb_limit"
    /\ \E resp \in Outcomes :
         LET page == ServerPage(limit_fallback, AfterParam)
         IN  /\ reqlog' = Append(reqlog,
                    LogEntry("fb_limit", limit_fallback, AfterParam, resp, page))
             /\ IF resp # "exc" /\ NeedsNoAfter(resp, page)
                THEN /\ pc' = "fb_noafter"
                     /\ UNCHANGED <<current_after, used_after, all_rows, result>>
                ELSE Handle(resp, page, limit_fallback, used_after)
    /\ UNCHANGED <<server, parq, csv, AFTER, old, rt, mrg, lp, call>>

\* Fallback 2: the request without 'after' (lines 235-239).
FallbackNoAfter ==
    /\ pc = "fb_noafter"
    /\ \E resp \in Outcomes :
         LET page == ServerPage(limit_fallback, <<>>)
         IN  /\ reqlog' = Append(reqlog,
                    LogEntry("fb_noafter", limit_fallback, <<>>, resp, page))
             /\ Handle(resp, page, limit_fallback,
                       IF resp = "exc" THEN used_after ELSE FALSE)
    /\ UNCHANGED <<server, parq, csv, AFTER, old, rt, mrg, lp, call>>

\* After the loop: raw capture, merge, de-duplication, persistence
\* (lines 288-346).
Finish ==
    /\ pc = "merge"
    /\ pc' = "idle"
    /\ \/ /\ all_rows # <<>>          \* writing <dev>_raw.ndjson fails
          /\ result' = Returned("fatal", <<>>)
          /\ UNCHANGED <<parq, csv>>
       \/ \E df \in MergeFrames(ReadOld(parq, csv), all_rows) :
            IF df = <<>>
            THEN /\ result' = Returned("empty", <<>>)
                 /\ UNCHANGED <<parq, csv>>
            ELSE \E wp \in WriteOutcomes, wc \in WriteOutcomes :
                   /\ parq' = Written(parq, df, wp)
                   /\ csv' = Written(csv, df, wc)
                   /\ result' = [kind |-> "df", df |-> df, wp |-> wp, wc |-> wc]
    /\ UNCHANGED <<server, AFTER, current_after, used_after, all_rows,
                   reqlog, old, rt, mrg, lp, call>>

----------------------------------------------------------------------------
(* The specification of the pull *)

RtIdle == [i |-> 0, attempts |-> 0, last_exc |-> FALSE, trace |-> <<>>,
           end |-> "running"]
MrgIdle == [H |-> <<>>, B |-> <<>>, step |-> 0, once |-> <<>>, twice |-> <<>>]
LpIdle == [DEVS |-> <<>>, i |-> 0, overview_rows |-> <<>>, cur |-> <<>>,
           listed |-> <<>>]
CallIdle == [fn |-> "none", arg |-> <<>>, out |-> <<>>, done |-> FALSE]

Init ==
    /\ server \in {S \in SUBSET Uplinks : Cardinality(S) <= MaxServer}
    /\ parq \in {Missing, Corrupt}
    /\ csv \in {Missing, Corrupt}
    /\ AFTER = 0
    /\ pc = "idle"
    /\ current_after = 0
    /\ used_after = FALSE
    /\ all_rows = <<>>
    /\ reqlog = <<>>
    /\ old = [parq |-> parq, csv |-> csv]
    /\ result = Returned("none", <<>>)
    /\ rt = RtIdle
    /\ mrg = MrgIdle
    /\ lp = LpIdle
    /\ call = CallIdle

Next == StartPull \/ PageRequest \/ FallbackLimit \/ FallbackNoAfter \/ Finish

Spec == Init /\ [][Next]_vars

----------------------------------------------------------------------------
(* _do_get_with_retries, one GET attempt per step *)

\* What one requests.get can yield: a response with a status code, or a
\* RequestException (status 0 stands for "no response").
Statuses == RETRY_CODES \cup {200, 204, 400, 404}
GetResults == [exc : {FALSE}, status : Statuses] \cup {[exc |-> TRUE, status |-> 0]}

IsRetryCode(status) == status \in RETRY_CODES

\* Variant: nothing is requested once the loop is exhausted.
NoExtraGet(last_exc) == FALSE

\* After the for loop: a recorded exception is re-raised, otherwise one more
\* GET is made outside the loop and whatever it yields is the result.
ExtraGetAfterLoop(last_exc) == ~last_exc

RtStart == [i |-> 0, attempts |-> 0, last_exc |-> FALSE, trace |-> <<>>,
            end |-> "running"]

\* One iteration of "for i in range(MAX_RETRIES)" (lines 156-169).
RetryAttempt ==
    /\ rt.end = "running"
    /\ rt.i < MAX_RETRIES
    /\ \E g \in GetResults :
         rt' = [rt EXCEPT
                  !.attempts = @ + 1,
                  !.trace    = Append(@, g),
                  !.last_exc = @ \/ g.exc,
                  !.i        = IF g.exc \/ IsRetryCode(g.status) THEN @ + 1 ELSE @,
                  !.end      = IF g.exc \/ IsRetryCode(g.status)
                               THEN "running" ELSE "returned"]
    /\ UNCHANGED pullvars
    /\ UNCHANGED <<mrg, lp, call>>

\* The code after the loop (lines 170-172).
RetryExhausted ==
    /\ rt.end = "running"
    /\ rt.i = MAX_RETRIES
    /\ IF ExtraGetAfterLoop(rt.last_exc)
       THEN \E g \in GetResults :
              rt' = [rt EXCEPT
                       !.attempts = @ + 1,
                       !.trace    = Append(@, g),
                       !.end      = IF g.exc THEN "raised" ELSE "returned"]
       ELSE rt' = [rt EXCEPT !.end = "raised"]
    /\ UNCHANGED pullvars
    /\ UNCHANGED <<mrg, lp, call>>

InitRetry ==
    /\ server = {}
    /\ parq = Missing
    /\ csv = Missing
    /\ AFTER = 0
    /\ pc = "idle"
    /\ current_after = 0
    /\ used_after = FALSE
    /\ all_rows = <<>>
    /\ reqlog = <<>>
    /\ old = [parq |-> Missing, csv |-> Missing]
    /\ result = Returned("none", <<>>)
    /\ rt = RtStart
    /\ mrg = MrgIdle
    /\ lp = LpIdle
    /\ call = CallIdle

NextRetry == RetryAttempt \/ RetryExhausted

SpecRetry == InitRetry /\ [][NextRetry]_vars

----------------------------------------------------------------------------
(* The merge of device_pull applied twice to the same batch *)

ValidRows == {r \in Rows : r.received_at # NaT}

RECURSIVE SeqsUpTo(_, _)
SeqsUpTo(S, n) ==
    IF n = 0 THEN {<<>>}
    ELSE LET shorter == SeqsUpTo(S, n - 1)
         IN  shorter \cup {Append(q, x) : q \in shorter, x \in S}

\* What device_pull can have persisted: sorted, one row per key.
Histories ==
    {h \in SeqsUpTo(ValidRows, limit_primary) :
        IsSorted(h) /\ DropDuplicates(h) = h}

Batches == SeqsUpTo(Rows, limit_primary)

MergeOnce ==
    /\ mrg.step = 0
    /\ \E df \in MergeFrames(mrg.H, mrg.B) :
         mrg' = [mrg EXCEPT !.once = df, !.step = 1]
    /\ UNCHANGED pullvars
    /\ UNCHANGED <<rt, lp, call>>

MergeTwice ==
    /\ mrg.step = 1
    /\ \E df \in MergeFrames(mrg.once, mrg.B) :
         mrg' = [mrg EXCEPT !.twice = df, !.step = 2]
    /\ UNCHANGED pullvars
    /\ UNCHANGED <<rt, lp, call>>

InitMerge ==
    /\ server = {}
    /\ parq = Missing
    /\ csv = Missing
    /\ AFTER = 0
    /\ pc = "idle"
    /\ current_after = 0
    /\ used_after = FALSE
    /\ all_rows = <<>>
    /\ reqlog = <<>>
    /\ old = [parq |-> Missing, csv |-> Missing]
    /\ result = Returned("none", <<>>)
    /\ rt = RtIdle
    /\ mrg \in [H : Histories, B : Batches, step : {0},
                once : {<<>>}, twice : {<<>>}]
    /\ lp = LpIdle
    /\ call = CallIdle

NextMerge == MergeOnce \/ MergeTwice

SpecMerge == InitMerge /\ [][NextMerge]_vars

----------------------------------------------------------------------------
(* The main device loop, one iteration per step *)

\* DEVICES.split(): a list of device names, possibly repeated and in any
\* order.  Names are numbered in their sort order.
DevLists == SeqsUpTo(1..MaxDevs, MaxDevs)

RECURSIVE Ascending(_)
Ascending(S) ==
    IF S = {} THEN <<>>
    ELSE LET m == CHOOSE x \in S : \A y \in S : x <= y
         IN  <<m>> \o Ascending(S \ {m})

\* Variant: the devices are visited as they were listed.
KeepListed(q) == q

\* DEVS = sorted(set(DEVS))
SortedSet(q) == Ascending({q[i] : i \in 1..Len(q)})

\* The histories and batches the pull of one loop iteration works on: at
\* most one stored row and one retrieved row, all of the same instant.
FirstRows == {Row(o) : o \in {u \in Uplinks : u.at = 1}}
LoopHistories == {h \in SeqsUpTo(FirstRows, 1) : DropNa(h) = h}
LoopBatches == SeqsUpTo(FirstRows, 1)

\* Where an exception is raised in the try block of one iteration
\* (lines 605-614), if anywhere.
Stages == {"none", "device_pull", "flatten_payload", "normalize_all",
           "last_ts", "detect_sensor_type"}

\* Variant: the record count of a device whose pipeline ran is not kept.
OverviewRowNoCount(d, df, stage) ==
    [device_id     |-> d,
     records       |-> 0,
     last_seen_utc |-> IF stage \in {"none", "detect_sensor_type"} /\ df # <<>>
                       THEN <<MaxTsOf(df)>> ELSE NaT,
     status        |-> IF stage # "none" THEN "error"
                       ELSE IF df = <<>> THEN "empty" ELSE "ok"]

\* The row appended to overview_rows (lines 603-625): df is what device_pull
\* returned, stage where the iteration raised.  last_ts is assigned before
\* detect_sensor_type is called, so an iteration that raises there keeps it.
OverviewRow(d, df, stage) ==
    [device_id     |-> d,
     records       |-> IF stage # "none" THEN 0 ELSE Len(df),
     last_seen_utc |-> IF stage \in {"none", "detect_sensor_type"} /\ df # <<>>
                       THEN <<MaxTsOf(df)>> ELSE NaT,
     status        |-> IF stage # "none" THEN "error"
                       ELSE IF df = <<>> THEN "empty" ELSE "ok"]

\* What the iteration under way did: the history and the batch the pull
\* merged, how the two writes went, what the pull returned, where the
\* iteration raised.
Visit(d, H, B, wp, wc, df, stage) ==
    [dev |-> d, H |-> H, B |-> B, wp |-> wp, wc |-> wc, df |-> df,
     stage |-> stage]

\* The effect of one iteration on the loop state (lines 620-625).
Visited(v) ==
    lp' = [lp EXCEPT
             !.i = @ + 1,
             !.overview_rows = Append(@, OverviewRow(v.dev, v.df, v.stage)),
             !.cur = <<v>>]

\* One iteration of "for dev in DEVS" (lines 602-653).  device_pull is
\* taken by what its last part (lines 299-350) returns: the merged frame,
\* whatever the two writes did, or an empty frame when it gave up.
VisitDevice ==
    /\ lp.i < Len(lp.DEVS)
    /\ LET d == lp.DEVS[lp.i + 1]
       IN  \/ Visited(Visit(d, <<>>, <<>>, "none", "none", <<>>, "device_pull"))
           \/ Visited(Visit(d, <<>>, <<>>, "none", "none", <<>>, "none"))
           \/ \E H \in LoopHistories, B \in LoopBatches :
              \E df \in MergeFrames(H, B) :
                 IF df = <<>>
                 THEN Visited(Visit(d, H, B, "none", "none", <<>>, "none"))
                 ELSE \E wp \in WriteOutcomes, wc \in WriteOutcomes :
                      \E stage \in Stages \ {"device_pull"} :
                         Visited(Visit(d, H, B, wp, wc, df, stage))
    /\ UNCHANGED pullvars
    /\ UNCHANGED <<rt, mrg, call>>

InitLoop ==
    /\ server = {}
    /\ parq = Missing
    /\ csv = Missing
    /\ AFTER = 0
    /\ pc = "idle"
    /\ current_after = 0
    /\ used_after = FALSE
    /\ all_rows = <<>>
    /\ reqlog = <<>>
    /\ old = [parq |-> Missing, csv |-> Missing]
    /\ result = Returned("none", <<>>)
    /\ rt = RtIdle
    /\ mrg = MrgIdle
    /\ call = CallIdle
    /\ \E q \in DevLists :
         lp = [DEVS |-> SortedSet(q), i |-> 0, overview_rows |-> <<>>,
               cur |-> <<>>, listed |-> q]

\* The staleness threshold in hours, and in ticks.
STALE_HOURS == 3
StaleTicks == STALE_HOURS * 3600 * TicksPerSecond

\* datetime.now(timezone.utc) when the health report is built: around the
\* threshold after the instants the histories hold.
Nows == {StaleTicks, StaleTicks + 1, StaleTicks + 2}

\* ov["last_seen_utc"] as the health report reads it: formatted to the
\* second for the overview table (line 667), then parsed again (line 858).
HealthLastSeen(ts) == IF ts = NaT THEN NaT ELSE <<FormatSeconds(ts[1])>>

\* The status of one health row (lines 872-880); the label STALE carries
\* the age in the report.
HealthStatus(last_seen, now) ==
    IF last_seen = NaT THEN "NO DATA"
    ELSE IF now - last_seen[1] > StaleTicks THEN "STALE"
    ELSE "OK"

\* One row of health_rows (lines 861-887), with DEV_INCLUDE and DEV_EXCLUDE
\* at their defaults, which keep every device.
HealthRow(row, now) ==
    [device_id |-> row.device_id,
     records   |-> row.records,
     last_seen |-> HealthLastSeen(row.last_seen_utc),
     status    |-> HealthStatus(HealthLastSeen(row.last_seen_utc), now)]

\* The health report, built from the overview once the loop is over.
HealthReport ==
    /\ lp.i = Len(lp.DEVS)
    /\ call.fn = "none"
    /\ \E now \in Nows :
         call' = [fn |-> "health", arg |-> now,
                  out |-> [k \in 1..Len(lp.overview_rows) |->
                             HealthRow(lp.overview_rows[k], now)],
                  done |-> TRUE]
    /\ UNCHANGED pullvars
    /\ UNCHANGED <<rt, mrg, lp>>

NextLoop == VisitDevice \/ HealthReport

SpecLoop == InitLoop /\ [][NextLoop]_vars

----------------------------------------------------------------------------
(* Vocabulary of the properties *)

RowSet(df) == {df[i] : i \in 1..Len(df)}

NoDuplicateKeys(df) ==
    \A i \in 1..Len(df) : \A j \in 1..Len(df) :
        i # j => Key(df[i]) # Key(df[j])

\* A frame as the history is meant to be: every row timestamped, ascending,
\* one row per dedup identity.
WellFormed(df) ==
    /\ \A i \in 1..Len(df) : df[i].received_at # NaT
    /\ IsSorted(df)
    /\ NoDuplicateKeys(df)

Last(q) == q[Len(q)]

\* The pull has returned (the state right after a return of device_pull).
PullReturned == pc = "idle" /\ result.kind # "none"

\* It ran to the end of the function body: lines 344 / 346.
PullCompleted == pc = "idle" /\ result.kind \in {"df", "empty"}

\* The history device_pull could read when the pull began.
OldRows == ReadOld(old.parq, old.csv)

\* An entry of the request log whose response reached the page handling of
\* the loop body with a body holding records.
IsPage(e) == e.resp = "ok" /\ e.n > 0

----------------------------------------------------------------------------
(* C1 *)

\* C1 (as claimed): merging the same batch B into a history H twice gives
\* exactly the frame that merging it once gives.
C1_MergeTwiceSameFrame ==
    mrg.step = 2 => mrg.twice = mrg.once

\* What does hold in the merge experiment: the second merge changes neither
\* the rows nor their number, and both results are well formed.
MergeTwiceSameRows ==
    mrg.step = 2 =>
        /\ RowSet(mrg.twice) = RowSet(mrg.once)
        /\ Len(mrg.twice) = Len(mrg.once)
        /\ WellFormed(mrg.once) /\ WellFormed(mrg.twice)

----------------------------------------------------------------------------
(* C2 *)

\* C2: whenever device_pull returns a non-empty history, that history is
\* sorted ascending by received_at and holds no two rows with the same
\* (device_id, received_at, f_port, payload_json); the same is true of every
\* readable persisted file, in every state of every sequence of runs.
C2_HistorySortedNoDuplicates ==
    /\ result.kind = "df" => result.df # <<>> /\ WellFormed(result.df)
    /\ parq.st = "ok" => parq.rows # <<>> /\ WellFormed(parq.rows)
    /\ csv.st = "ok" => csv.rows # <<>> /\ WellFormed(csv.rows)

\* A pull that retrieved again a row already stored (de-duplication acted)
\* and rows out of timestamp order relative to the history, and persisted.
C2_Witness ==
    /\ PullCompleted /\ result.kind = "df"
    /\ OldRows # <<>>
    /\ \E i \in 1..Len(all_rows) : all_rows[i] \in RowSet(OldRows)
    /\ Len(result.df) >= 2
    /\ parq = Stored(result.df) /\ csv = Stored(result.df)

----------------------------------------------------------------------------
(* C3 *)

\* C3 (as claimed): the after cursor sent with a request is at least one
\* second past the maximum timestamp seen so far in the pull, the first
\* cursor of a run with stored history is at least the stored maximum plus
\* one second, and the cursor never moves backwards.
C3_CursorOneSecondPast ==
    \A i \in 1..Len(reqlog) :
        reqlog[i].after # <<>> =>
            /\ reqlog[i].seen > 0 =>
                   reqlog[i].after[1] >= reqlog[i].seen + TicksPerSecond
            /\ OldRows # <<>> =>
                   reqlog[i].after[1] >= MaxTsOf(OldRows) + TicksPerSecond
            /\ \A j \in 1..i : reqlog[j].after # <<>> =>
                   reqlog[j].after[1] <= reqlog[i].after[1]

\* C3 (amended): the cursor device_pull keeps for the next page request
\* is at least one second past the maximum timestamp seen so far in the
\* pull and past the stored maximum; the after parameter sent with a request
\* is that cursor truncated to whole seconds: it is strictly later than
\* every timestamp seen so far and than the stored maximum, and at least
\* that maximum plus one second truncated to whole seconds; it never moves
\* backwards within a pull; and a run that read a stored history sends a
\* cursor with its first request.
C3_CursorPastSeen ==
    /\ (pc = "get" /\ used_after) =>
        /\ SeenMax(all_rows) > 0 =>
               current_after >= SeenMax(all_rows) + TicksPerSecond
        /\ OldRows # <<>> =>
               current_after >= MaxTsOf(OldRows) + TicksPerSecond
    /\ \A i \in 1..Len(reqlog) :
        reqlog[i].after # <<>> =>
            /\ reqlog[i].after[1] > reqlog[i].seen
            /\ reqlog[i].seen > 0 =>
                   reqlog[i].after[1] >= FormatSeconds(reqlog[i].seen + TicksPerSecond)
            /\ OldRows # <<>> =>
                   /\ reqlog[i].after[1] > MaxTsOf(OldRows)
                   /\ reqlog[i].after[1] >=
                          FormatSeconds(MaxTsOf(OldRows) + TicksPerSecond)
            /\ \A j \in 1..i : reqlog[j].after # <<>> =>
                   reqlog[j].after[1] <= reqlog[i].after[1]
    /\ (Len(reqlog) > 0 /\ OldRows # <<>>) => reqlog[1].after # <<>>

\* A pull with stored history whose first page was full, so that a second
\* page request went out with a cursor derived from that page.
C3_Witness ==
    /\ Len(reqlog) >= 2
    /\ OldRows # <<>>
    /\ reqlog[1].kind = "page" /\ IsPage(reqlog[1])
    /\ reqlog[2].kind = "page" /\ reqlog[2].after # <<>>
    /\ reqlog[2].seen > MaxTsOf(OldRows)
    /\ reqlog[2].after[1] > reqlog[1].after[1]

----------------------------------------------------------------------------
(* C4 *)

FirstCursor == IF reqlog[1].after = <<>> THEN 0 ELSE reqlog[1].after[1]

NoRequestFailed == \A i \in 1..Len(reqlog) : reqlog[i].resp = "ok"

\* C4 (as claimed): when no request fails, the history device_pull returns
\* holds every timestamped server record at or after the starting cursor.
C4_RetrievalComplete ==
    (PullCompleted /\ Len(reqlog) > 0 /\ NoRequestFailed) =>
        \A o \in server :
            (Row(o).received_at # NaT /\ o.at >= FirstCursor) =>
                Row(o) \in RowSet(result.df)

----------------------------------------------------------------------------
(* C5 *)

\* C5 (as claimed): after a processed page a further page request is issued
\* exactly when the page held at least as many records as the cap of the
\* request that produced it and a maximum timestamp was found in it; a full
\* page followed by a smaller one makes exactly two requests.
C5_StopRule ==
    (Len(reqlog) > 0 /\ IsPage(Last(reqlog)) /\ pc \in {"get", "merge"}) =>
        /\ pc = "get" <=>
              (Last(reqlog).n >= Last(reqlog).limit /\ Last(reqlog).has_max)
        /\ (/\ Len(reqlog) >= 2
            /\ reqlog[1].n = reqlog[1].limit /\ reqlog[1].has_max
            /\ reqlog[2].resp = "ok" /\ reqlog[2].n < reqlog[2].limit)
           => Len(reqlog) = 2

\* What holds of the code: the page is measured against the cap of the
\* primary request, whichever request produced it.
StopRuleOfTheCode ==
    (Len(reqlog) > 0 /\ IsPage(Last(reqlog)) /\ pc \in {"get", "merge"}) =>
        (pc = "get" <=>
            (Last(reqlog).n >= limit_primary /\ Last(reqlog).has_max))

----------------------------------------------------------------------------
(* C6 *)

Retryable(g) == g.exc \/ g.status \in RETRY_CODES

AllRetryable(trace) == \A k \in 1..Len(trace) : Retryable(trace[k])

\* C6 (as claimed): when every attempt yields a retryable status or a network
\* exception, the call makes at most MAX_RETRIES GET attempts and ends by
\* raising; a non-retryable response ends the call at once, returned.
C6_AtMostMaxRetriesThenRaise ==
    rt.end # "running" =>
        /\ AllRetryable(rt.trace) =>
               rt.end = "raised" /\ rt.attempts <= MAX_RETRIES
        /\ ~AllRetryable(rt.trace) =>
               /\ rt.end = "returned"
               /\ ~Retryable(Last(rt.trace))
               /\ AllRetryable(SubSeq(rt.trace, 1, Len(rt.trace) - 1))

\* C6 (amended): the call makes at most MAX_RETRIES + 1 GET attempts.  A
\* non-retryable response on one of the first MAX_RETRIES attempts is
\* returned at once.  When those attempts were all retryable and at least
\* one of them was a network exception, the call raises after exactly
\* MAX_RETRIES attempts.  When they all were retryable statuses, the call
\* makes one more GET and returns its response whatever its status (or
\* lets its exception propagate).
C6_RetryOutcome ==
    /\ rt.attempts = Len(rt.trace)
    /\ rt.attempts <= MAX_RETRIES + 1
    /\ rt.end = "running" => AllRetryable(rt.trace) /\ rt.attempts <= MAX_RETRIES
    /\ rt.end # "running" =>
         LET n     == Len(rt.trace)
             m     == IF n <= MAX_RETRIES THEN n ELSE MAX_RETRIES
             first == SubSeq(rt.trace, 1, m)
         IN  IF ~AllRetryable(first)
             THEN /\ n <= MAX_RETRIES
                  /\ ~Retryable(rt.trace[n])
                  /\ AllRetryable(SubSeq(rt.trace, 1, n - 1))
                  /\ rt.end = "returned"
             ELSE IF \E k \in 1..m : first[k].exc
             THEN n = MAX_RETRIES /\ rt.end = "raised"
             ELSE /\ n = MAX_RETRIES + 1
                  /\ rt.end = (IF rt.trace[n].exc THEN "raised" ELSE "returned")

\* MAX_RETRIES retryable statuses, then the extra GET answers 503 and that
\* response is returned.
C6_Witness ==
    /\ rt.end = "returned"
    /\ rt.attempts = MAX_RETRIES + 1
    /\ AllRetryable(rt.trace)
    /\ Last(rt.trace).status = 503

----------------------------------------------------------------------------
(* C7 *)

Got400(e) == Is400(e.resp)

\* The requests of the fallback ladder come in the order of the code.
LadderOrdered ==
    \A i \in 1..Len(reqlog) :
        /\ reqlog[i].kind = "fb_limit" =>
              /\ i > 1
              /\ reqlog[i - 1].kind = "page" /\ Got400(reqlog[i - 1])
              /\ reqlog[i].limit = limit_fallback
              /\ reqlog[i].after = reqlog[i - 1].after
        /\ reqlog[i].kind = "fb_noafter" =>
              /\ i > 1
              /\ reqlog[i - 1].kind = "fb_limit"
              /\ reqlog[i - 1].resp # "exc"
              /\ (reqlog[i - 1].resp # "ok" \/ reqlog[i - 1].n = 0)
              /\ reqlog[i].limit = limit_fallback
              /\ reqlog[i].after = <<>>
        /\ (reqlog[i].kind = "page" /\ Got400(reqlog[i])) =>
              IF i = Len(reqlog) THEN pc = "fb_limit"
              ELSE reqlog[i + 1].kind = "fb_limit"
        /\ (reqlog[i].kind = "fb_limit" /\ reqlog[i].resp # "exc"
                /\ (reqlog[i].resp # "ok" \/ reqlog[i].n = 0)) =>
              IF i = Len(reqlog) THEN pc = "fb_noafter"
              ELSE reqlog[i + 1].kind = "fb_noafter"

\* The last iteration of the page loop entered the ladder.
EndedInLadder ==
    /\ Len(reqlog) > 0
    /\ \E i \in 1..Len(reqlog) :
          /\ reqlog[i].kind = "page" /\ Got400(reqlog[i])
          /\ \A j \in (i + 1)..Len(reqlog) : reqlog[j].kind # "page"

\* C7 (as claimed): the ladder is ordered, and after a 400 device_pull
\* returns its empty give-up result only once the request without 'after'
\* has also returned a non-OK response.
C7_LadderThenGiveUp ==
    /\ LadderOrdered
    /\ (PullReturned /\ EndedInLadder /\ result.kind \in {"giveup", "fatal"}) =>
          /\ Last(reqlog).kind = "fb_noafter"
          /\ Last(reqlog).resp \in {"bad400", "err"}

\* C7 (amended): the ladder is ordered and no step is reordered; the
\* give-up return for a non-OK response happens, after a 400, only once the
\* request without 'after' has returned a non-OK response with a body; a
\* network exception propagating from a request of the ladder, or a failed
\* write of the raw capture, ends the pull with an empty result at once,
\* without the remaining steps.
C7_LadderOrder ==
    /\ LadderOrdered
    /\ (PullReturned /\ EndedInLadder /\ result.kind = "giveup") =>
          /\ Last(reqlog).kind = "fb_noafter"
          /\ Last(reqlog).resp \in {"bad400", "err"}
    /\ (PullReturned /\ result.kind = "giveup") =>
          /\ Last(reqlog).kind \in {"page", "fb_noafter"}
          /\ Last(reqlog).resp \in {"bad400", "err"}
    /\ (PullReturned /\ EndedInLadder /\ result.kind = "fatal") =>
          \/ Last(reqlog).resp = "exc"
          \/ all_rows # <<>>

\* The whole ladder was walked and the pull gave up.
C7_Witness ==
    /\ PullReturned /\ result.kind = "giveup"
    /\ Len(reqlog) >= 3
    /\ reqlog[Len(reqlog) - 2].kind = "page" /\ Got400(reqlog[Len(reqlog) - 2])
    /\ reqlog[Len(reqlog) - 2].after # <<>>
    /\ reqlog[Len(reqlog) - 1].kind = "fb_limit"
    /\ reqlog[Len(reqlog) - 1].resp = "err"
    /\ Last(reqlog).kind = "fb_noafter" /\ Last(reqlog).resp = "err"

----------------------------------------------------------------------------
(* C8 *)

\* A successful response without records that reached the page handling of
\* the loop body (line 243).
IsEmptyPage(e) == e.kind # "fb_limit" /\ e.resp = "ok" /\ e.n = 0

NewRows == RowSet(DropNa(all_rows))

----------------------------------------------------------------------------
(* C9 *)

NoHistoryFile == old.parq.st = "missing" /\ old.csv.st = "missing"
ParquetUnreadable == old.parq.st = "corrupt"
BothUnreadable == old.parq.st = "corrupt" /\ old.csv.st = "corrupt"

\* C9 (as claimed): with the history missing, the parquet unreadable, or
\* parquet and CSV both unreadable, the pull treats the history as empty and
\* returns exactly the de-duplicated, sorted newly retrieved rows.
C9_UnreadableMeansEmpty ==
    (PullCompleted /\ Len(reqlog) > 0
        /\ (NoHistoryFile \/ ParquetUnreadable \/ BothUnreadable)) =>
        /\ RowSet(result.df) = NewRows
        /\ WellFormed(result.df)

\* C9 (amended): device_pull never raises; when neither the parquet nor the
\* CSV of the device can be read (each missing or unreadable) a pull that
\* runs to its end sends no cursor with its first request and returns
\* exactly the de-duplicated, sorted newly retrieved rows; when the parquet
\* cannot be read but the CSV can, the CSV history is used instead: the
\* cursor starts from it and the result is the CSV rows merged with the
\* new rows.
C9_DegradesToReadableFormat ==
    (PullCompleted /\ Len(reqlog) > 0) =>
        /\ (old.parq.st # "ok" /\ old.csv.st # "ok") =>
              /\ reqlog[1].after = <<>>
              /\ RowSet(result.df) = NewRows
              /\ WellFormed(result.df)
        /\ (old.parq.st # "ok" /\ old.csv.st = "ok") =>
              /\ reqlog[1].after # <<>>
              /\ RowSet(result.df) = RowSet(old.csv.rows) \cup NewRows
              /\ WellFormed(result.df)

\* Both files were unreadable when the pull began, and it returned rows.
C9_Witness ==
    /\ PullCompleted /\ result.kind = "df"
    /\ BothUnreadable
    /\ Len(result.df) >= 2

\* The parquet was unreadable, the CSV was read instead.
CsvFallbackReached ==
    /\ PullCompleted /\ result.kind = "df"
    /\ ParquetUnreadable /\ old.csv.st = "ok"
    /\ NewRows \ RowSet(old.csv.rows) # {}

----------------------------------------------------------------------------
(* C10 *)

\* C10 (as claimed): with the persisted history corrupt, unreadable or
\* absent, the first page request carries after = AFTER, the start of the
\* lookback window.
C10_FirstRequestFromAFTER ==
    (Len(reqlog) > 0 /\ OldRows = <<>>) => reqlog[1].after = <<AFTER>>

\* What the code does: without a readable history the first request carries
\* no after parameter at all, and AFTER is sent only as a lower bound of a
\* cursor derived from a stored history.
FirstRequestWithoutCursor ==
    (Len(reqlog) > 0 /\ OldRows = <<>>) => reqlog[1].after = <<>>

----------------------------------------------------------------------------
(* C11 *)

\* C11: when the parquet write, the CSV write or both fail in device_pull,
\* the frame it returns is still the complete merged history (every stored
\* row, every timestamped retrieved row, nothing else, sorted, one row per
\* identity), and the device loop, when the rest of the iteration does not
\* raise, appends for that device a row with status ok and the number of
\* rows of that frame.
C11_FailedWritesStillCounted ==
    lp.cur # <<>> =>
        LET v == lp.cur[1]
        IN  (v.df # <<>> /\ (v.wp = "keep" \/ v.wc = "keep")) =>
               /\ RowSet(v.df) = RowSet(v.H) \cup RowSet(DropNa(v.B))
               /\ WellFormed(v.df)
               /\ v.stage = "none" =>
                     /\ Last(lp.overview_rows).device_id = v.dev
                     /\ Last(lp.overview_rows).status = "ok"
                     /\ Last(lp.overview_rows).records = Len(v.df)

\* Both writes failed for a device whose merged history has two rows, and
\* its overview row says ok with two records.
C11_Witness ==
    /\ lp.cur # <<>>
    /\ lp.cur[1].wp = "keep" /\ lp.cur[1].wc = "keep"
    /\ lp.cur[1].stage = "none"
    /\ lp.cur[1].H # <<>> /\ Len(lp.cur[1].df) = 2
    /\ Last(lp.overview_rows).status = "ok"
    /\ Last(lp.overview_rows).records = 2

----------------------------------------------------------------------------
(* C12 *)

StrictlyAscending(q) == \A i \in 1..Len(q) : \A j \in 1..Len(q) : i < j => q[i] < q[j]

LoopDone == lp.i = Len(lp.DEVS)

----------------------------------------------------------------------------
(* C13 *)

\* C13 (as claimed): every record that was in a persisted history file of
\* the device when a pull began is still in that file when the pull has
\* returned, so that no file ever holds fewer records than before.
C13_HistoryOnlyGrows ==
    PullReturned =>
        /\ RowSet(old.parq.rows) \subseteq RowSet(parq.rows)
        /\ RowSet(old.csv.rows) \subseteq RowSet(csv.rows)
        /\ Len(old.parq.rows) <= Len(parq.rows)
        /\ Len(old.csv.rows) <= Len(csv.rows)

\* What holds of the code: the history as a run reads it (the parquet when
\* it reads, else the CSV) never loses a record.
ReadableHistoryOnlyGrows ==
    PullReturned =>
        RowSet(ReadOld(old.parq, old.csv)) \subseteq RowSet(ReadOld(parq, csv))

----------------------------------------------------------------------------
(* _robust_json_lines *)

\* A text is a sequence of characters.  The characters that matter to the
\* parser: "\n", " ", "{", "}", and, each written as one character, the
\* prefix data: ("D"), a member "k":v of an object ("K"), the key "result":
\* ("R"), a number ("N") and any other character ("x").
NL == "\n"

\* json.loads on this alphabet: a value is a number or an object; an
\* object is {}, {K} or {R value}; white space between tokens is skipped.
\* The result of ParseValue is <<parsed, value, rest>>.
NoSpaces(s) == SelectSeq(s, LAMBDA c : c # " ")

ParseFail == <<FALSE, <<>>, <<>>>>

RECURSIVE ParseValue(_)
ParseValue(s) ==
    IF s = <<>> THEN ParseFail
    ELSE IF Head(s) = "N" THEN <<TRUE, <<"num">>, Tail(s)>>
    ELSE IF Head(s) # "{" \/ Len(s) < 2 THEN ParseFail
    ELSE IF s[2] = "}" THEN <<TRUE, <<"obj">>, SubSeq(s, 3, Len(s))>>
    ELSE IF s[2] = "K"
         THEN IF Len(s) >= 3 /\ s[3] = "}"
              THEN <<TRUE, <<"obj", "K">>, SubSeq(s, 4, Len(s))>>
              ELSE ParseFail
    ELSE IF s[2] = "R"
         THEN LET v == ParseValue(SubSeq(s, 3, Len(s)))
              IN  IF v[1] /\ v[3] # <<>> /\ Head(v[3]) = "}"
                  THEN <<TRUE, <<"obj", "R", v[2]>>, Tail(v[3])>>
                  ELSE ParseFail
    ELSE ParseFail

\* json.loads(s): <<value>>, or <<>> when it raises.
Loads(s) ==
    LET r == ParseValue(NoSpaces(s))
    IN  IF r[1] /\ r[3] = <<>> THEN <<r[2]>> ELSE <<>>

IsDict(v) == v[1] = "obj"

\* isinstance(o, dict) and "result" in o and isinstance(o["result"], dict)
HasResultDict(v) == IsDict(v) /\ Len(v) = 3 /\ IsDict(v[3])

\* str.strip()
RECURSIVE LStrip(_)
LStrip(s) == IF s # <<>> /\ Head(s) = " " THEN LStrip(Tail(s)) ELSE s

RECURSIVE RStrip(_)
RStrip(s) ==
    IF s # <<>> /\ s[Len(s)] = " " THEN RStrip(SubSeq(s, 1, Len(s) - 1)) ELSE s

Strip(s) == RStrip(LStrip(s))

Positions(s, c) == {i \in 1..Len(s) : s[i] = c}
Min(S) == CHOOSE x \in S : \A y \in S : x <= y
Max(S) == CHOOSE x \in S : \A y \in S : x >= y

\* s[s.find("{"): s.rfind("}")+1] when both braces occur in s
BraceSlice(s) ==
    IF Positions(s, "{") # {} /\ Positions(s, "}") # {}
    THEN SubSeq(s, Min(Positions(s, "{")), Max(Positions(s, "}")))
    ELSE s

\* Variant: a wrapper object is kept as it is.
KeepWrapper(v) == v

\* o = o["result"] for a wrapper object
Unwrap(v) == IF HasResultDict(v) THEN v[3] ELSE v

\* The body of the loop over the lines (lines 123-136): what one line adds
\* to out.
ParseLine(ln) ==
    LET s0 == Strip(ln)
        s1 == IF s0 # <<>> /\ Head(s0) = "D" THEN Strip(Tail(s0)) ELSE s0
        s2 == BraceSlice(s1)
        o  == Loads(s2)
    IN  IF s0 = <<>> \/ o = <<>> THEN <<>>
        ELSE IF IsDict(Unwrap(o[1])) THEN <<Unwrap(o[1])>> ELSE <<>>

\* str.splitlines() for texts whose only line boundary is "\n"
RECURSIVE SplitLines(_)
SplitLines(text) ==
    IF text = <<>> THEN <<>>
    ELSE IF Positions(text, NL) = {} THEN <<text>>
    ELSE LET n == Min(Positions(text, NL))
         IN  <<SubSeq(text, 1, n - 1)>> \o SplitLines(SubSeq(text, n + 1, Len(text)))

RECURSIVE ParseLines(_)
ParseLines(lines) ==
    IF lines = <<>> THEN <<>>
    ELSE ParseLine(Head(lines)) \o ParseLines(Tail(lines))

\* _robust_json_lines(raw_text)
RobustJsonLines(raw_text) == ParseLines(SplitLines(raw_text))

\* The lines the texts are made of: something before, a core, something
\* after.
Prefixes == {<<>>, <<" ", "D", " ">>}
Cores == {<<>>, <<"{", "K", "}">>, <<"{", "R", "{", "K", "}", "}">>,
          <<"{", "R", "N", "}">>, <<"{", "K">>,
          <<"{", "K", "}", "{", "K", "}">>}
Suffixes == {<<>>, <<" ", "x">>}
Lines == {a \o b \o c : a \in Prefixes, b \in Cores, c \in Suffixes}

RECURSIVE JoinLines(_)
JoinLines(ls) ==
    IF ls = <<>> THEN <<>>
    ELSE IF Len(ls) = 1 THEN ls[1]
    ELSE ls[1] \o <<NL>> \o JoinLines(Tail(ls))

CallRobustJsonLines ==
    /\ call.fn = "_robust_json_lines"
    /\ ~call.done
    /\ call' = [call EXCEPT !.out = RobustJsonLines(call.arg.text),
                            !.done = TRUE]
    /\ UNCHANGED pullvars
    /\ UNCHANGED <<rt, mrg, lp>>

InitParse ==
    /\ server = {}
    /\ parq = Missing
    /\ csv = Missing
    /\ AFTER = 0
    /\ pc = "idle"
    /\ current_after = 0
    /\ used_after = FALSE
    /\ all_rows = <<>>
    /\ reqlog = <<>>
    /\ old = [parq |-> Missing, csv |-> Missing]
    /\ result = Returned("none", <<>>)
    /\ rt = RtIdle
    /\ mrg = MrgIdle
    /\ lp = LpIdle
    /\ \E ls \in SeqsUpTo(Lines, MaxLines), final_newline \in BOOLEAN :
         call = [fn |-> "_robust_json_lines",
                 arg |-> [lines |-> ls,
                          text |-> JoinLines(ls) \o
                                   (IF final_newline /\ ls # <<>>
                                    THEN <<NL>> ELSE <<>>)],
                 out |-> <<>>, done |-> FALSE]

NextParse == CallRobustJsonLines

SpecParse == InitParse /\ [][NextParse]_vars

----------------------------------------------------------------------------
(* C14 *)

BlankLine(ln) == NoSpaces(ln) = <<>>

\* The line is a JSON object, or data: followed by a JSON object.
ObjectLine(ln) == Loads(ln) # <<>> /\ Loads(ln)[1][1] = "obj"
SseLine(ln) ==
    /\ Strip(ln) # <<>> /\ Head(Strip(ln)) = "D"
    /\ ObjectLine(Tail(Strip(ln)))

ObjectOf(ln) == IF ObjectLine(ln) THEN Loads(ln)[1] ELSE Loads(Tail(Strip(ln)))[1]

\* The nested result object of a wrapper, else the object itself.
Inner(v) == IF Len(v) = 3 /\ v[3][1] = "obj" THEN v[3] ELSE v

\* The objects embedded in a line between other characters: a stretch that
\* begins with the first "{" of the line, ends with its last "}", and is a
\* JSON object.
Embedded(ln) ==
    {core \in {SubSeq(ln, i, j) : i \in 1..Len(ln), j \in 1..Len(ln)} :
        \E i \in 1..Len(ln), j \in 1..Len(ln) :
            /\ i < j /\ core = SubSeq(ln, i, j)
            /\ ln[i] = "{" /\ ln[j] = "}"
            /\ \A k \in 1..(i - 1) : ln[k] # "{"
            /\ \A k \in (j + 1)..Len(ln) : ln[k] # "}"
            /\ ObjectLine(core)}

ClaimedOfLine(ln) ==
    IF BlankLine(ln) THEN <<>>
    ELSE IF ObjectLine(ln) \/ SseLine(ln) THEN <<Inner(ObjectOf(ln))>>
    ELSE <<>>

AmendedOfLine(ln) ==
    IF BlankLine(ln) THEN <<>>
    ELSE IF ObjectLine(ln) \/ SseLine(ln) THEN <<Inner(ObjectOf(ln))>>
    ELSE IF Embedded(ln) # {}
         THEN <<Inner(ObjectOf(CHOOSE core \in Embedded(ln) : TRUE))>>
    ELSE <<>>

RECURSIVE ClaimedOut(_)
ClaimedOut(ls) ==
    IF ls = <<>> THEN <<>> ELSE ClaimedOfLine(Head(ls)) \o ClaimedOut(Tail(ls))

RECURSIVE AmendedOut(_)
AmendedOut(ls) ==
    IF ls = <<>> THEN <<>> ELSE AmendedOfLine(Head(ls)) \o AmendedOut(Tail(ls))

\* C14 (as claimed): the parser returns, in input order, exactly one object
\* for each line that is a JSON object or data: followed by a JSON object
\* (the nested result object where the line is a wrapper), and nothing for
\* any other line.
C14_ExactlyTheValidLines ==
    call.done => call.out = ClaimedOut(call.arg.lines)

\* C14 (amended): the parser never raises and returns, in input order, at
\* most one object per line: for a line that is a JSON object or data:
\* followed by one, that object (the nested result object of a wrapper);
\* for a line that is not valid JSON but holds a JSON object between its
\* first "{" and its last "}", with other characters around it, that
\* embedded object; nothing for blank lines and for every other line.
C14_ValidAndEmbeddedObjects ==
    call.done => call.out = AmendedOut(call.arg.lines)

\* A text of two lines, a wrapper line and a line with characters around an
\* object: the nested object of the first and the embedded object of the
\* second are returned.
C14_Witness ==
    /\ call.done
    /\ Len(call.arg.lines) = 2
    /\ ObjectLine(call.arg.lines[1]) /\ Len(ObjectOf(call.arg.lines[1])) = 3
    /\ ~ObjectLine(call.arg.lines[2]) /\ ~SseLine(call.arg.lines[2])
    /\ Embedded(call.arg.lines[2]) # {}
    /\ call.out = <<<<"obj", "K">>, <<"obj", "K">>>>

----------------------------------------------------------------------------
(* _best_ts *)

\* A value that may be missing: None is <<>>, the value v is <<v>>.
None == <<>>

\* bool(x) for such a value: None and 0 are false.
Truthy(x) == x # None /\ x # <<0>>

\* a or b
PyOr(a, b) == IF Truthy(a) THEN a ELSE b

TsOpt == {None} \cup {<<t>> : t \in 1..MaxTs}

\* An uplink object as far as _best_ts reads it: received_at, the
\* received_at of uplink_message, the time of each rx_metadata entry (an
\* absent rx_metadata reads like an empty list), created_at.
UplinkObjects ==
    [received_at : TsOpt, up_received_at : TsOpt,
     rx_metadata : SeqsUpTo([time : TsOpt], MaxRx), created_at : TsOpt]

\* rx = (up.get("rx_metadata") or [{}])
RxOrDefault(o) ==
    IF o.rx_metadata = <<>> THEN <<[time |-> None]>> ELSE o.rx_metadata

\* _best_ts(o)
BestTs(o) ==
    PyOr(PyOr(PyOr(o.received_at, o.up_received_at), RxOrDefault(o)[1].time),
         o.created_at)

CallBestTs ==
    /\ call.fn = "_best_ts"
    /\ ~call.done
    /\ call' = [call EXCEPT !.out = BestTs(call.arg), !.done = TRUE]
    /\ UNCHANGED pullvars
    /\ UNCHANGED <<rt, mrg, lp>>

InitBestTs ==
    /\ server = {}
    /\ parq = Missing
    /\ csv = Missing
    /\ AFTER = 0
    /\ pc = "idle"
    /\ current_after = 0
    /\ used_after = FALSE
    /\ all_rows = <<>>
    /\ reqlog = <<>>
    /\ old = [parq |-> Missing, csv |-> Missing]
    /\ result = Returned("none", <<>>)
    /\ rt = RtIdle
    /\ mrg = MrgIdle
    /\ lp = LpIdle
    /\ \E o \in UplinkObjects :
         call = [fn |-> "_best_ts", arg |-> o, out |-> None, done |-> FALSE]

NextBestTs == CallBestTs

SpecBestTs == InitBestTs /\ [][NextBestTs]_vars

----------------------------------------------------------------------------
(* C15 *)

RxTimes(o) ==
    {o.rx_metadata[k].time[1] :
        k \in {j \in 1..Len(o.rx_metadata) : o.rx_metadata[j].time # None}}

EarliestRxTime(o) == IF RxTimes(o) = {} THEN None ELSE <<Min(RxTimes(o))>>

FirstRxTime(o) ==
    IF o.rx_metadata = <<>> THEN None ELSE o.rx_metadata[1].time

\* The first of four candidates that is present, None when none is.
FirstPresent(a, b, c, d) ==
    IF a # None THEN a ELSE IF b # None THEN b ELSE IF c # None THEN c ELSE d

\* C15 (as claimed): _best_ts returns the record-level received_at if
\* present, otherwise the received_at of uplink_message, otherwise the
\* earliest time among the rx_metadata entries, otherwise created_at, and
\* None only when none of these is present.
C15_EarliestRxTime ==
    call.done =>
        call.out = FirstPresent(call.arg.received_at, call.arg.up_received_at,
                                EarliestRxTime(call.arg), call.arg.created_at)

\* What the code does: the third candidate is the time of the first
\* rx_metadata entry, whatever the other entries hold.
BestTsTakesFirstRxTime ==
    call.done =>
        call.out = FirstPresent(call.arg.received_at, call.arg.up_received_at,
                                FirstRxTime(call.arg), call.arg.created_at)

----------------------------------------------------------------------------
(* The first pull of a device: one page shorter than the cap, no history *)

\* A timestamp string that pd.to_datetime(..., errors="coerce") cannot read.
Unparsable == <<-1>>

\* Variant: an unreadable timestamp string is kept as it is.
ToDatetimeKeep(x) == IF x = None THEN NaT ELSE x

\* pd.to_datetime(x, utc=True, errors="coerce")
ToDatetime(x) == IF x = None \/ x = Unparsable THEN NaT ELSE x

\* A line of the page: text that _robust_json_lines skips, or an uplink
\* object with its received_at (missing, unreadable or an instant) and its
\* port and payload.
PageLines ==
    {[parses |-> FALSE, ts |-> None, v |-> 1]} \cup
    [parses : {TRUE}, ts : TsOpt \cup {Unparsable}, v : 1..2]

\* The uplink object of a line, as _best_ts reads it.
ObjectOfLine(ln) ==
    [received_at |-> ln.ts, up_received_at |-> None, rx_metadata |-> <<>>,
     created_at |-> None]

\* objs = _robust_json_lines(raw_text)
PageObjects(page) == SelectSeq(page, LAMBDA ln : ln.parses)

\* A row of batch_rows with received_at as df_new holds it after
\* pd.to_datetime (lines 260-267 and 302).
NewRow(ln) ==
    [received_at  |-> ToDatetime(BestTs(ObjectOfLine(ln))),
     device_id    |-> dev,
     f_port       |-> Variants[ln.v].f_port,
     payload_json |-> Variants[ln.v].payload_json]

BatchRows(page) ==
    [i \in 1..Len(PageObjects(page)) |-> NewRow(PageObjects(page)[i])]

\* device_pull for a device with no history file, answered 200 OK with one
\* page that is shorter than the cap: the loop ends after this page, the raw
\* capture is written, the rows are cleaned, sorted and persisted.
FirstPull ==
    /\ call.fn = "device_pull"
    /\ ~call.done
    /\ \/ /\ call.arg # <<>>          \* writing <dev>_raw.ndjson fails
          /\ call' = [call EXCEPT !.done = TRUE,
                        !.out = [kind |-> "fatal", df |-> <<>>, wp |-> "none",
                                 wc |-> "none", parq |-> Missing, csv |-> Missing]]
       \/ \E df \in MergeFrames(<<>>, BatchRows(call.arg)) :
            IF df = <<>>
            THEN call' = [call EXCEPT !.done = TRUE,
                        !.out = [kind |-> "empty", df |-> <<>>, wp |-> "none",
                                 wc |-> "none", parq |-> Missing, csv |-> Missing]]
            ELSE \E wp \in WriteOutcomes, wc \in WriteOutcomes :
                 call' = [call EXCEPT !.done = TRUE,
                        !.out = [kind |-> "df", df |-> df, wp |-> wp, wc |-> wc,
                                 parq |-> Written(Missing, df, wp),
                                 csv |-> Written(Missing, df, wc)]]
    /\ UNCHANGED pullvars
    /\ UNCHANGED <<rt, mrg, lp>>

InitPage ==
    /\ server = {}
    /\ parq = Missing
    /\ csv = Missing
    /\ AFTER = 0
    /\ pc = "idle"
    /\ current_after = 0
    /\ used_after = FALSE
    /\ all_rows = <<>>
    /\ reqlog = <<>>
    /\ old = [parq |-> Missing, csv |-> Missing]
    /\ result = Returned("none", <<>>)
    /\ rt = RtIdle
    /\ mrg = MrgIdle
    /\ lp = LpIdle
    /\ \E page \in SeqsUpTo(PageLines, MaxPage) :
         call = [fn |-> "device_pull", arg |-> page,
                 out |-> [kind |-> "none", df |-> <<>>, wp |-> "none",
                          wc |-> "none", parq |-> Missing, csv |-> Missing],
                 done |-> FALSE]

NextPage == FirstPull

SpecPage == InitPage /\ [][NextPage]_vars

----------------------------------------------------------------------------
(* C16 *)

\* The lines of the page that are JSON objects with a timestamp that reads.
Resolvable(page) ==
    {page[i] : i \in {j \in 1..Len(page) :
        page[j].parses /\ page[j].ts # None /\ page[j].ts # Unparsable}}

\* The record a resolvable line stands for.
RecordOf(ln) ==
    [received_at |-> ln.ts, device_id |-> dev,
     f_port |-> Variants[ln.v].f_port,
     payload_json |-> Variants[ln.v].payload_json]

\* C16: for a device without prior history, the history device_pull returns
\* and persists consists of exactly the retrieved entries that parsed as
\* JSON objects and have a timestamp that reads, one record per distinct
\* entry, sorted ascending; a record whose timestamp is null or unreadable
\* is in no returned or persisted history.
C16_ExactlyTheTimestampedEntries ==
    call.done =>
        /\ call.out.kind \in {"df", "empty"} =>
              /\ RowSet(call.out.df) = {RecordOf(ln) : ln \in Resolvable(call.arg)}
              /\ Len(call.out.df) = Cardinality(Resolvable(call.arg))
              /\ WellFormed(call.out.df)
        /\ call.out.kind = "fatal" => call.out.df = <<>> /\ call.arg # <<>>
        /\ \A f \in {call.out.parq, call.out.csv} :
              /\ f.st = "ok" => f.rows = call.out.df /\ f.rows # <<>>
              /\ f.st # "ok" => f = Missing
        /\ call.out.wp = "ok" => call.out.parq.st = "ok"
        /\ call.out.wc = "ok" => call.out.csv.st = "ok"

\* A page of three lines, the later record first, then a malformed line,
\* then the earlier record: the history holds exactly two records,
\* ascending, in both files.
C16_Witness ==
    /\ call.done /\ call.out.kind = "df"
    /\ Len(call.arg) = 3
    /\ call.arg[1].parses /\ call.arg[1].ts = <<2>>
    /\ ~call.arg[2].parses
    /\ call.arg[3].parses /\ call.arg[3].ts = <<1>>
    /\ Len(call.out.df) = 2
    /\ call.out.df[1].received_at = <<1>> /\ call.out.df[2].received_at = <<2>>
    /\ call.out.parq = Stored(call.out.df) /\ call.out.csv = Stored(call.out.df)

----------------------------------------------------------------------------
(* unpack (one_device_build.py) *)

\* The values of a decoded payload: null, or a number (0 included).
PayloadValues == {None} \cup {<<n>> : n \in 0..MaxVal}

\* The raw keys given values in the payloads examined; every other key is
\* absent.
GivenKeys == {"temperature", "temp", "t", "humidity", "rh"}

\* The payload of a record: a dict, or something that is not a dict.
Payloads ==
    [dict : {TRUE}, kv : [GivenKeys -> PayloadValues]] \cup
    {[dict |-> FALSE, kv |-> [k \in GivenKeys |-> None]]}

\* d.get(k)
Get(d, k) == IF k \in DOMAIN d.kv THEN d.kv[k] ELSE None

\* unpack(d)
unpack(d) ==
    IF ~d.dict THEN <<>>
    ELSE [pm25        |-> Get(d, "pm25"),
          co2         |-> Get(d, "co2"),
          temperature |-> PyOr(PyOr(Get(d, "temperature"), Get(d, "temp")), Get(d, "t")),
          humidity    |-> PyOr(Get(d, "humidity"), Get(d, "rh")),
          battery     |-> PyOr(Get(d, "battery"), Get(d, "vbat")),
          pressure    |-> PyOr(Get(d, "pressure"), Get(d, "p")),
          no2         |-> Get(d, "no2"),
          o3          |-> Get(d, "o3")]

CallUnpack ==
    /\ call.fn = "unpack"
    /\ ~call.done
    /\ call' = [call EXCEPT !.out = unpack(call.arg), !.done = TRUE]
    /\ UNCHANGED pullvars
    /\ UNCHANGED <<rt, mrg, lp>>

InitUnpack ==
    /\ server = {}
    /\ parq = Missing
    /\ csv = Missing
    /\ AFTER = 0
    /\ pc = "idle"
    /\ current_after = 0
    /\ used_after = FALSE
    /\ all_rows = <<>>
    /\ reqlog = <<>>
    /\ old = [parq |-> Missing, csv |-> Missing]
    /\ result = Returned("none", <<>>)
    /\ rt = RtIdle
    /\ mrg = MrgIdle
    /\ lp = LpIdle
    /\ \E d \in Payloads :
         call = [fn |-> "unpack", arg |-> d, out |-> <<>>, done |-> FALSE]

NextUnpack == CallUnpack

SpecUnpack == InitUnpack /\ [][NextUnpack]_vars

----------------------------------------------------------------------------
(* C19 *)

RECURSIVE FirstNonNull(_, _)
\* The value of the first key of keys, in order, whose value in d is not
\* null; null when there is none.
FirstNonNull(d, keys) ==
    IF keys = <<>> THEN None
    ELSE IF Get(d, Head(keys)) # None THEN Get(d, Head(keys))
    ELSE FirstNonNull(d, Tail(keys))

\* C19: in the payload mapping of unpack, for every record the canonical
\* metric equals the value of the first raw key, in rule order, whose value
\* in that record is non-null (the number 0 included), and is null only when
\* all of its raw keys are null or absent.
C19_FirstNonNullWins ==
    (call.fn = "unpack" /\ call.done /\ call.arg.dict) =>
        /\ call.out.temperature = FirstNonNull(call.arg, <<"temperature", "temp", "t">>)
        /\ call.out.humidity = FirstNonNull(call.arg, <<"humidity", "rh">>)
        /\ call.out.battery = FirstNonNull(call.arg, <<"battery", "vbat">>)
        /\ call.out.pressure = FirstNonNull(call.arg, <<"pressure", "p">>)

\* What unpack does: the first raw key whose value is neither null nor 0
\* wins, and when there is none the value of the last key is taken as it is.
UnpackTakesFirstTruthy ==
    (call.fn = "unpack" /\ call.done /\ call.arg.dict) =>
        LET d == call.arg
            T(k) == Truthy(Get(d, k))
        IN  /\ call.out.temperature =
                  IF T("temperature") THEN Get(d, "temperature")
                  ELSE IF T("temp") THEN Get(d, "temp") ELSE Get(d, "t")
            /\ call.out.humidity =
                  IF T("humidity") THEN Get(d, "humidity") ELSE Get(d, "rh")

----------------------------------------------------------------------------
(* Flattened device tables and normalize_all *)

\* Cell values: NaN/None is <<>>, a number is held in hundredths, numeric
\* text is the number with a mark, Unparsable is text that is no number.
Num(n) == <<n * 100>>
NumText(n) == <<n * 100, 1>>

\* The threshold above which a barometric pressure is taken to be pascals.
PascalThreshold == 5000

\* pd.to_numeric(v, errors="coerce") on one cell; float(v) where it succeeds.
Coerce(v) ==
    IF v = Unparsable THEN None
    ELSE IF Len(v) = 2 THEN <<v[1]>> ELSE v

\* pd.to_numeric(column, errors="coerce")
CoerceCol(vals) == [i \in 1..Len(vals) |-> Coerce(vals[i])]

\* pd.to_numeric(column, errors="ignore"): the column converted when every
\* cell reads as a number, the column as it was otherwise.
IgnoreCol(vals) ==
    IF \E i \in 1..Len(vals) : vals[i] = Unparsable THEN vals
    ELSE CoerceCol(vals)

\* v / k
Div(v, k) == IF v = None THEN None ELSE <<v[1] \div k>>

DivCol(vals, k) == [i \in 1..Len(vals) |-> Div(vals[i], k)]

\* A table is its row count and its columns in order, each a name with one
\* cell per row.
Columns(df) == {df.cols[i].name : i \in 1..Len(df.cols)}

\* df[c]
Col(df, c) ==
    df.cols[CHOOSE i \in 1..Len(df.cols) :
                /\ df.cols[i].name = c
                /\ \A j \in 1..(i - 1) : df.cols[j].name # c].vals

\* df[c] = vals
SetCol(df, c, vals) ==
    IF c \in Columns(df)
    THEN [df EXCEPT !.cols = [i \in 1..Len(df.cols) |->
              IF df.cols[i].name = c THEN [name |-> c, vals |-> vals]
              ELSE df.cols[i]]]
    ELSE [df EXCEPT !.cols = Append(df.cols, [name |-> c, vals |-> vals])]

\* Variant: the destination is written whether or not it exists.
MapAlways(df, src, dst) ==
    IF src \in Columns(df)
    THEN SetCol(df, dst, CoerceCol(Col(df, src)))
    ELSE df

\* if src in df.columns and dst not in df.columns:
\*     df[dst] = pd.to_numeric(df[src], errors="coerce")
Map(df, src, dst) ==
    IF src \in Columns(df) /\ dst \notin Columns(df)
    THEN SetCol(df, dst, CoerceCol(Col(df, src)))
    ELSE df

RECURSIVE MapEach(_, _)
\* The rules of a vendor table applied one after the other.
MapEach(df, rules) ==
    IF rules = <<>> THEN df
    ELSE MapEach(Map(df, Head(rules)[1], Head(rules)[2]), Tail(rules))

\* The first name of srcs that is a column of df; "" when none is.
FirstSource(df, srcs) ==
    IF \E i \in 1..Len(srcs) : srcs[i] \in Columns(df)
    THEN srcs[CHOOSE i \in 1..Len(srcs) :
                 /\ srcs[i] \in Columns(df)
                 /\ \A j \in 1..(i - 1) : srcs[j] \notin Columns(df)]
    ELSE ""

normalize_dds75(df) ==
    LET bat == FirstSource(df, <<"Bat", "BAT", "Bat_V">>)
        d1  == IF "battery" \notin Columns(df) /\ bat # ""
               THEN SetCol(df, "battery", CoerceCol(Col(df, bat)))
               ELSE df
        d2  == IF "distance_cm" \in Columns(d1) THEN d1
               ELSE IF "Distance_mm" \in Columns(d1)
               THEN SetCol(d1, "distance_cm",
                           DivCol(CoerceCol(Col(d1, "Distance_mm")), 10))
               ELSE IF "Distance" \in Columns(d1)
               THEN SetCol(d1, "distance_cm",
                           DivCol(CoerceCol(Col(d1, "Distance")), 10))
               ELSE d1
        d3  == Map(d2, "TempC_DS18B20", "temperature")
    IN  MapEach(d3, << <<"Interrupt_flag", "interrupt_flag">>,
                       <<"Sensor_flag", "sensor_flag">> >>)

\* if s in df.columns and s.lower() not in df.columns: df[s.lower()] = df[s]
CopyLower(df, s, lower) ==
    IF s \in Columns(df) /\ lower \notin Columns(df)
    THEN SetCol(df, lower, Col(df, s))
    ELSE df

normalize_pslb(df) ==
    LET d1 == MapEach(df, << <<"Bat_V", "battery">>, <<"BAT", "battery">> >>)
        d2 == MapEach(d1, << <<"Water_deep_cm", "water_cm">>,
                             <<"Water_pressure_kPa", "pressure_kpa">>,
                             <<"Water_pressure_MPa", "pressure_mpa">>,
                             <<"Differential_pressure_Pa", "diff_pressure_pa">>,
                             <<"VDC_intput_V", "vdc_input_v">>,
                             <<"IDC_intput_mA", "idc_input_ma">>,
                             <<"Probe_mod", "probe_mode">> >>)
        d3 == CopyLower(d2, "IN1_pin_level", "in1_pin_level")
        d4 == CopyLower(d3, "IN2_pin_level", "in2_pin_level")
        d5 == CopyLower(d4, "Exti_pin_level", "exti_pin_level")
    IN  CopyLower(d5, "Exti_status", "exti_status")

\* Variant: every pressure is divided by 100.
RescaleAlways(p) == Div(p, 100)

\* p/100.0 if p > 5000 else p
Rescale(p) ==
    IF p # None /\ p[1] > PascalThreshold * 100 THEN Div(p, 100) ELSE p

\* The measurement types with a canonical name, in the order the result is
\* filled.
MessageTypes ==
    << <<"Air Temperature", "temperature">>,
       <<"Air Humidity", "humidity">>,
       <<"Light Intensity", "illumination">>,
       <<"UV Index", "uv_index">>,
       <<"Wind Speed", "wind_speed">>,
       <<"Wind Direction Sensor", "wind_dir">>,
       <<"Rain Gauge", "rainfall">>,
       <<"Barometric Pressure", "pressure_hpa">> >>

\* by_type[t]: the value of the last message of type t, float(v) where v
\* reads as a number and v itself otherwise.
ByType(msgs, t) ==
    LET at == {i \in 1..Len(msgs) : msgs[i].type = t}
        last == CHOOSE i \in at : \A j \in at : j <= i
        v == msgs[last].measurementValue
    IN  IF v = Unparsable THEN v ELSE Coerce(v)

HasType(msgs, t) == \E i \in 1..Len(msgs) : msgs[i].type = t

\* The keys of the dict extract_from_messages returns for one payload.
ResKeys(msgs) ==
    {MessageTypes[k][2] : k \in {j \in 1..Len(MessageTypes) :
        /\ HasType(msgs, MessageTypes[j][1])
        /\ MessageTypes[j][2] = "pressure_hpa" =>
              /\ ByType(msgs, MessageTypes[j][1]) # None
              /\ ByType(msgs, MessageTypes[j][1]) # Unparsable}}

\* The value extract_from_messages gives the canonical name dst of type t.
ResValue(msgs, t, dst) ==
    IF dst = "pressure_hpa" THEN Rescale(ByType(msgs, t)) ELSE ByType(msgs, t)

\* Variant: the columns the table already has are appended again.
KeepDuplicates(df, names) == names

\* dup = [c for c in metrics.columns if c in df.columns]; metrics.drop(dup)
DropDuplicateColumns(df, names) ==
    SelectSeq(names, LAMBDA m : m[2] \notin Columns(df))

normalize_sensecap_messages(df) ==
    IF df.n = 0 \/ "payload_json" \notin Columns(df) THEN df
    ELSE LET pj == Col(df, "payload_json")
             keys == UNION {ResKeys(pj[i]) : i \in 1..df.n}
             metrics == SelectSeq(MessageTypes, LAMBDA m : m[2] \in keys)
             added == DropDuplicateColumns(df, metrics)
         IN  IF metrics = <<>> THEN df
             ELSE [df EXCEPT !.cols = df.cols \o
                     [k \in 1..Len(added) |->
                        [name |-> added[k][2],
                         vals |-> [i \in 1..df.n |->
                            IF added[k][2] \in ResKeys(pj[i])
                            THEN ResValue(pj[i], added[k][1], added[k][2])
                            ELSE None]]]]

\* The generic cast of every column but device_id; payload_json holds JSON
\* objects as text, which never read as numbers, and is left as it is.
GenericCast(df) ==
    [df EXCEPT !.cols = [i \in 1..Len(df.cols) |->
        IF df.cols[i].name \in {"device_id", "payload_json"} THEN df.cols[i]
        ELSE [df.cols[i] EXCEPT !.vals = IgnoreCol(@)]]]

\* for col in ("rssi","snr"): df[col] = pd.to_numeric(df[col], errors="coerce")
CoerceSignal(df) ==
    [df EXCEPT !.cols = [i \in 1..Len(df.cols) |->
        IF df.cols[i].name \in {"rssi", "snr"}
        THEN [df.cols[i] EXCEPT !.vals = CoerceCol(@)]
        ELSE df.cols[i]]]

normalize_all(df) ==
    CoerceSignal(normalize_sensecap_messages(normalize_pslb(normalize_dds75(
        GenericCast(df)))))

\* The values a cell of a raw or canonical column takes in the tables
\* examined.
CellValues(c) ==
    CASE c = "Bat" -> {None, Num(3)}
      [] c = "BAT" -> {None, Num(4)}
      [] c = "Bat_V" -> {None, Num(5)}
      [] c = "battery" -> {None, Num(6)}
      [] c = "Distance_mm" -> {None, Num(1000), NumText(1000), Unparsable}
      [] c = "Distance" -> {Num(20)}
      [] c = "distance_cm" -> {Num(7)}
      [] c = "TempC_DS18B20" -> {Num(21)}
      [] c = "temperature" -> {Num(8)}
      [] c = "pressure_hpa" -> {Num(990)}
      [] c = "Water_deep_cm" -> {Num(30), Unparsable}
      [] c = "water_cm" -> {Num(31)}
      [] c = "IN1_pin_level" -> {Unparsable, NumText(1)}
      [] c = "in1_pin_level" -> {Num(0)}
      [] c = "rssi" -> {None, Num(90), Unparsable}
      [] OTHER -> {None}

Message(t, v) == [type |-> t, measurementValue |-> v]

\* The message lists of the SenseCAP payloads examined.
PayloadCells ==
    { <<>>,
      <<Message("Air Temperature", Num(21)), Message("Noise", Num(40))>>,
      <<Message("Air Temperature", None)>>,
      <<Message("Barometric Pressure", Num(1013))>>,
      <<Message("Barometric Pressure", Num(5000))>>,
      <<Message("Barometric Pressure", NumText(101325))>>,
      <<Message("Barometric Pressure", Num(101325)),
        Message("Barometric Pressure", Num(5001))>>,
      <<Message("Barometric Pressure", Unparsable),
        Message("Air Temperature", Unparsable)>> }

\* The column sets of the tables examined, payload_json apart.
ColumnGroups ==
    (SUBSET {"Bat", "BAT", "Bat_V", "battery"}) \cup
    (SUBSET {"Distance_mm", "Distance", "distance_cm"}) \cup
    (SUBSET {"Water_deep_cm", "water_cm", "IN1_pin_level", "in1_pin_level"}) \cup
    (SUBSET {"TempC_DS18B20", "temperature"}) \cup
    {{"rssi"}, {"temperature", "pressure_hpa"}}

ColumnOrder ==
    <<"rssi", "Bat", "BAT", "Bat_V", "battery", "Distance_mm", "Distance",
      "distance_cm", "TempC_DS18B20", "temperature", "pressure_hpa",
      "Water_deep_cm", "water_cm", "IN1_pin_level", "in1_pin_level">>

RECURSIVE ColumnsOver(_, _)
\* Every filling of the named columns with n rows.
ColumnsOver(names, n) ==
    IF names = <<>> THEN {<<>>}
    ELSE {<<[name |-> Head(names), vals |-> vals]>> \o rest :
            vals \in [1..n -> CellValues(Head(names))],
            rest \in ColumnsOver(Tail(names), n)}

\* Flattened tables of n rows over the column group g: payload_json first,
\* with messages only where the table has at most the canonical columns, or
\* Distance_mm, beside it.
Tables(n, g) ==
    {[n |-> n, cols |-> <<[name |-> "payload_json", vals |-> pj]>> \o cs] :
        pj \in (IF g \subseteq {"temperature", "pressure_hpa"} \/ g = {"Distance_mm"}
                THEN [1..n -> PayloadCells]
                ELSE {[i \in 1..n |-> <<>>]}),
        cs \in ColumnsOver(SelectSeq(ColumnOrder, LAMBDA c : c \in g), n)}

\* df = normalize_all(df), a first and a second time.
CallNormalizeAll ==
    /\ call.fn = "normalize_all"
    /\ call.out.step < 2
    /\ call' = [call EXCEPT
                  !.out = IF call.out.step = 0
                          THEN [step |-> 1, once |-> normalize_all(call.arg),
                                twice |-> call.out.twice]
                          ELSE [step |-> 2, once |-> call.out.once,
                                twice |-> normalize_all(call.out.once)],
                  !.done = (call.out.step = 1)]
    /\ UNCHANGED pullvars
    /\ UNCHANGED <<rt, mrg, lp>>

InitNormalize ==
    /\ server = {}
    /\ parq = Missing
    /\ csv = Missing
    /\ AFTER = 0
    /\ pc = "idle"
    /\ current_after = 0
    /\ used_after = FALSE
    /\ all_rows = <<>>
    /\ reqlog = <<>>
    /\ old = [parq |-> Missing, csv |-> Missing]
    /\ result = Returned("none", <<>>)
    /\ rt = RtIdle
    /\ mrg = MrgIdle
    /\ lp = LpIdle
    /\ \E n \in 1..MaxRows, g \in ColumnGroups : \E df \in Tables(n, g) :
         call = [fn |-> "normalize_all", arg |-> df,
                 out |-> [step |-> 0, once |-> df, twice |-> df],
                 done |-> FALSE]

NextNormalize == CallNormalizeAll

SpecNormalize == InitNormalize /\ [][NextNormalize]_vars

----------------------------------------------------------------------------
(* C20 *)

\* The table given to normalize_all and the table after one application.
Raw == call.arg
Once == call.out.once
Twice == call.out.twice
Normalized == call.fn = "normalize_all" /\ call.out.step >= 1

\* A cell that holds a number.
IsNumber(v) == Len(v) = 1 /\ v # Unparsable

\* The rows of the table whose payload reports a numeric barometric
\* pressure.
PressureRows ==
    {i \in 1..Raw.n :
        /\ HasType(Col(Raw, "payload_json")[i], "Barometric Pressure")
        /\ IsNumber(ByType(Col(Raw, "payload_json")[i], "Barometric Pressure"))}

\* C20: for every numeric raw value d of Distance_mm the derived
\* distance_cm is d/10, and for every barometric pressure p the derived
\* pressure_hpa is p/100 when p exceeds 5000 and p itself otherwise.
C20_UnitConversion ==
    Normalized =>
        /\ ("Distance_mm" \in Columns(Raw) /\ "distance_cm" \notin Columns(Raw)) =>
              /\ "distance_cm" \in Columns(Once)
              /\ \A i \in 1..Raw.n :
                    LET d == Col(Raw, "Distance_mm")[i]
                        c == Col(Once, "distance_cm")[i]
                    IN  IsNumber(d) => IsNumber(c) /\ c[1] * 10 = d[1]
        /\ ("pressure_hpa" \notin Columns(Raw) /\ PressureRows # {}) =>
              /\ "pressure_hpa" \in Columns(Once)
              /\ \A i \in PressureRows :
                    LET p == ByType(Col(Raw, "payload_json")[i], "Barometric Pressure")
                        h == Col(Once, "pressure_hpa")[i]
                    IN  /\ IsNumber(h)
                        /\ p[1] > 5000 * 100 => h[1] * 100 = p[1]
                        /\ p[1] <= 5000 * 100 => h = p

\* A record with Distance_mm 1000 and a pressure of 101325 gets 100.0 cm and
\* 1013.25 hPa; a record with a pressure of 1013 keeps 1013.
C20_Witness ==
    /\ Normalized
    /\ Raw.n = 2
    /\ Columns(Raw) = {"payload_json", "Distance_mm"}
    /\ Col(Raw, "Distance_mm")[1] = Num(1000)
    /\ Col(Raw, "payload_json")[1] =
          <<Message("Barometric Pressure", NumText(101325))>>
    /\ Col(Raw, "payload_json")[2] =
          <<Message("Barometric Pressure", Num(1013))>>
    /\ Col(Once, "distance_cm")[1] = Num(100)
    /\ Col(Once, "pressure_hpa")[1] = <<101325>>
    /\ Col(Once, "pressure_hpa")[2] = Num(1013)

----------------------------------------------------------------------------
(* C18 *)

\* The table before each vendor rule set and after the last one.
BeforeDds75 == GenericCast(Raw)
BeforePslb == normalize_dds75(BeforeDds75)
BeforeSensecap == normalize_pslb(BeforePslb)
AfterSensecap == normalize_sensecap_messages(BeforeSensecap)

\* Every column of x is a column of y, in the same place, with the same
\* cells; what y has more comes after.
KeepsColumns(x, y) ==
    /\ x.n = y.n
    /\ Len(x.cols) <= Len(y.cols)
    /\ \A i \in 1..Len(x.cols) : y.cols[i] = x.cols[i]
    /\ \A i \in 1..Len(y.cols) : \A j \in 1..Len(y.cols) :
          i # j => y.cols[i].name # y.cols[j].name

\* The column of the raw table a canonical column is to be derived from: the
\* first of the sources, in table order, that is a column.
SourceOf(srcs) ==
    IF srcs = <<>> THEN ""
    ELSE IF srcs[1] \in Columns(Raw) THEN srcs[1]
    ELSE IF Len(srcs) >= 2 /\ srcs[2] \in Columns(Raw) THEN srcs[2]
    ELSE IF Len(srcs) >= 3 /\ srcs[3] \in Columns(Raw) THEN srcs[3]
    ELSE ""

\* The canonical column dst is the numeric reading of the first present
\* source, each cell divided by k; it is absent when no source is present.
DerivedFrom(dst, srcs, k) ==
    dst \notin Columns(Raw) =>
        IF SourceOf(srcs) = "" THEN dst \notin Columns(BeforeSensecap)
        ELSE /\ dst \in Columns(Once)
             /\ \A i \in 1..Raw.n :
                  LET v == Col(Raw, SourceOf(srcs))[i]
                      c == Col(Once, dst)[i]
                  IN  /\ IsNumber(v) => c[1] * k = v[1]
                      /\ Len(v) = 2 => c[1] * k = v[1]
                      /\ (v = None \/ v = Unparsable) => c = None

\* C18: running normalize_dds75, normalize_pslb, normalize_sensecap_messages
\* in this order, a column that exists when a rule set is evaluated, raw or
\* canonical, keeps its cells, and each canonical column is derived from
\* the first raw source column, in vendor-table order, that is present.
C18_FirstApplicableRuleWins ==
    Normalized =>
        /\ KeepsColumns(BeforeDds75, BeforePslb)
        /\ KeepsColumns(BeforePslb, BeforeSensecap)
        /\ KeepsColumns(BeforeSensecap, AfterSensecap)
        /\ Once = CoerceSignal(AfterSensecap)
        /\ Col(Once, "payload_json") = Col(Raw, "payload_json")
        /\ \A c \in Columns(Raw) \ {"rssi", "snr", "payload_json"} :
              /\ c \in Columns(Once)
              /\ Col(Once, c) \in {Col(Raw, c), CoerceCol(Col(Raw, c))}
        /\ DerivedFrom("battery", <<"Bat", "BAT", "Bat_V">>, 1)
        /\ DerivedFrom("distance_cm", <<"Distance_mm", "Distance">>, 10)
        /\ DerivedFrom("water_cm", <<"Water_deep_cm">>, 1)
        /\ ("TempC_DS18B20" \in Columns(Raw) /\ "temperature" \notin Columns(Raw)) =>
              Col(Once, "temperature") = CoerceCol(Col(Raw, "TempC_DS18B20"))
        /\ ("IN1_pin_level" \in Columns(Raw) /\ "in1_pin_level" \notin Columns(Raw)) =>
              Col(Once, "in1_pin_level") = Col(BeforeDds75, "IN1_pin_level")

\* BAT and Bat_V are both columns and battery is not: normalize_dds75
\* derives battery from BAT, the earlier name in its table, and the battery
\* rule of normalize_pslb, which names Bat_V first, leaves it as it is.
C18_Witness ==
    /\ Normalized
    /\ Columns(Raw) = {"payload_json", "BAT", "Bat_V"}
    /\ Col(Raw, "BAT")[1] = Num(4)
    /\ Col(Raw, "Bat_V")[1] = Num(5)
    /\ Col(BeforePslb, "battery")[1] = Num(4)
    /\ Col(Once, "battery")[1] = Num(4)
    /\ Col(Once, "BAT") = Col(Raw, "BAT")
    /\ Col(Once, "Bat_V") = Col(Raw, "Bat_V")

\* The battery rule read per record: the battery of a record is the first
\* of Bat, BAT, Bat_V that is non-null in that record.  The rule picks one
\* source column for the whole table, so this does not hold.
BatteryFirstNonNullPerRecord ==
    (Normalized /\ "battery" \notin Columns(Raw)) =>
        \A i \in 1..Raw.n :
            LET cell(c) == IF c \in Columns(Raw) THEN Col(Raw, c)[i] ELSE None
                first == IF cell("Bat") # None THEN cell("Bat")
                         ELSE IF cell("BAT") # None THEN cell("BAT")
                         ELSE cell("Bat_V")
            IN  first # None =>
                   "battery" \in Columns(Once) /\ Col(Once, "battery")[i] = first

----------------------------------------------------------------------------
(* C17 *)

\* The names of the columns of a table, in order.
ColumnNames(df) == [i \in 1..Len(df.cols) |-> df.cols[i].name]

\* C17: normalization is idempotent: applying normalize_all twice yields
\* the same columns and the same column values as applying it once.
C17_NormalizeAllIdempotent ==
    (call.fn = "normalize_all" /\ call.out.step = 2) =>
        /\ ColumnNames(Twice) = ColumnNames(Once)
        /\ \A c \in Columns(Once) : Col(Twice, c) = Col(Once, c)
        /\ Twice.n = Once.n

\* A table with Distance_mm and SenseCAP messages normalized twice: the
\* first application added distance_cm, temperature and pressure_hpa, the
\* second changed nothing.
C17_Witness ==
    /\ call.fn = "normalize_all" /\ call.out.step = 2
    /\ Columns(Raw) = {"payload_json", "Distance_mm"}
    /\ Columns(Once) =
          {"payload_json", "Distance_mm", "distance_cm", "temperature", "pressure_hpa"}
    /\ Col(Raw, "Distance_mm")[1] = NumText(1000)
    /\ Col(Once, "Distance_mm")[1] = Num(1000)
    /\ Col(Once, "distance_cm")[1] = Num(100)
    /\ Col(Once, "temperature")[1] = Unparsable
    /\ Twice = Once

----------------------------------------------------------------------------
(* detect_sensor_type *)

\* A cell of a type/model column: null, or a text (which may be empty).
Null == [null |-> TRUE, text |-> ""]
Text(t) == [null |-> FALSE, text |-> t]

\* Device ids, character by character.
DeviceIds ==
    { <<"e", "u", "i", "-", "7">>,
      <<"S", "e", "n", "s", "e", "C", "A", "P", "-", "1">>,
      <<"d", "d", "s", "7", "5", "-", "l", "b">>,
      <<"m", "y", "-", "P", "S", "-", "L", "B">>,
      <<"p", "s", "_", "l", "b">>,
      <<"p", "s", "-", "l", "b", "-", "d", "d", "s", "7", "5">> }

\* c.lower() for the letters that occur.
LowerChar(c) ==
    CASE c = "S" -> "s" [] c = "C" -> "c" [] c = "A" -> "a" [] c = "P" -> "p"
      [] c = "L" -> "l" [] c = "B" -> "b" [] c = "D" -> "d" [] OTHER -> c

\* device_id.lower()
Lower(id) == [i \in 1..Len(id) |-> LowerChar(id[i])]

\* frag in name
Contains(name, frag) ==
    \E k \in 0..(Len(name) - Len(frag)) :
        \A i \in 1..Len(frag) : name[k + i] = frag[i]

\* df[col].dropna()
DropNaCol(vals) == SelectSeq(vals, LAMBDA v : ~v.null)

\* Variant: the oldest non-null value.
OldestValue(vser) == vser[1].text

\* str(vser.iloc[-1])
LastValue(vser) == vser[Len(vser)].text

RECURSIVE ExplicitType(_, _)
\* The loop over the type/model columns: the first column, in order, whose
\* last non-null value is a non-empty text gives that text; "" when no
\* column does.
ExplicitType(df, cols) ==
    IF cols = <<>> THEN ""
    ELSE LET col == Head(cols)
             vser == IF col \in Columns(df) THEN DropNaCol(Col(df, col)) ELSE <<>>
         IN  IF vser # <<>> /\ LastValue(vser) # "" THEN LastValue(vser)
             ELSE ExplicitType(df, Tail(cols))

detect_sensor_type(df, device_id) ==
    LET v == ExplicitType(df, <<"node_type", "Node_type", "sensor_model", "SENSOR_MODEL">>)
        name == Lower(device_id)
        cols == Columns(df)
    IN  IF v # "" THEN v
        ELSE IF Contains(name, <<"s", "e", "n", "s", "e", "c", "a", "p">>) THEN "SenseCAP"
        ELSE IF Contains(name, <<"d", "d", "s", "7", "5">>) THEN "DDS75-LB"
        ELSE IF Contains(name, <<"p", "s", "-", "l", "b">>) THEN "PS-LB"
        ELSE IF {"illumination", "uv_index", "wind_speed", "pressure_hpa"} \cap cols # {}
             THEN "SenseCAP"
        ELSE IF {"distance_cm", "TempC_DS18B20", "Interrupt_flag"} \cap cols # {}
             THEN "DDS75-LB"
        ELSE IF {"water_cm", "idc_input_ma", "vdc_input_v"} \cap cols # {}
             THEN "PS-LB"
        ELSE "Other"

\* The values a cell of a column of the tables examined takes.
TypeCells(c) ==
    CASE c = "node_type" -> {Null, Text(""), Text("LSN50"), Text("S2120")}
      [] c = "sensor_model" -> {Null, Text("DDS75")}
      [] OTHER -> {Null}

\* The column sets of the tables examined, the type/model columns apart.
SignatureGroups ==
    { {}, {"temperature"}, {"pressure_hpa"}, {"distance_cm"}, {"water_cm"},
      {"distance_cm", "water_cm"}, {"uv_index", "Interrupt_flag", "vdc_input_v"} }

TypeColumnOrder ==
    <<"node_type", "sensor_model", "temperature", "pressure_hpa", "uv_index",
      "distance_cm", "Interrupt_flag", "water_cm", "vdc_input_v">>

RECURSIVE TypeColumnsOver(_, _)
\* Every filling of the named columns with n rows.
TypeColumnsOver(names, n) ==
    IF names = <<>> THEN {<<>>}
    ELSE {<<[name |-> Head(names), vals |-> vals]>> \o rest :
            vals \in [1..n -> TypeCells(Head(names))],
            rest \in TypeColumnsOver(Tail(names), n)}

\* typ = detect_sensor_type(df, dev)
CallDetectSensorType ==
    /\ call.fn = "detect_sensor_type"
    /\ ~call.done
    /\ call' = [call EXCEPT
                  !.out = detect_sensor_type(call.arg.df, call.arg.device_id),
                  !.done = TRUE]
    /\ UNCHANGED pullvars
    /\ UNCHANGED <<rt, mrg, lp>>

InitDetect ==
    /\ server = {}
    /\ parq = Missing
    /\ csv = Missing
    /\ AFTER = 0
    /\ pc = "idle"
    /\ current_after = 0
    /\ used_after = FALSE
    /\ all_rows = <<>>
    /\ reqlog = <<>>
    /\ old = [parq |-> Missing, csv |-> Missing]
    /\ result = Returned("none", <<>>)
    /\ rt = RtIdle
    /\ mrg = MrgIdle
    /\ lp = LpIdle
    /\ \E n \in 1..MaxRows, t \in SUBSET {"node_type", "sensor_model"},
          g \in SignatureGroups, id \in DeviceIds :
         \E cs \in TypeColumnsOver(
                     SelectSeq(TypeColumnOrder, LAMBDA c : c \in t \cup g), n) :
            call = [fn |-> "detect_sensor_type",
                    arg |-> [df |-> [n |-> n, cols |-> cs], device_id |-> id],
                    out |-> "", done |-> FALSE]

NextDetect == CallDetectSensorType

SpecDetect == InitDetect /\ [][NextDetect]_vars

----------------------------------------------------------------------------
(* C21 *)

DetectDone == call.fn = "detect_sensor_type" /\ call.done
DetectDf == call.arg.df

\* The non-null cells of a type/model column of the table, oldest first;
\* none when the table has no such column.
NonNull(c) ==
    IF c \in Columns(DetectDf)
    THEN SelectSeq(Col(DetectDf, c), LAMBDA v : ~v.null)
    ELSE <<>>

\* The most recent non-null value of a type/model column.
MostRecent(c) == NonNull(c)[Len(NonNull(c))].text

\* The lower-cased device id contains one of the three vendor fragments.
IdNames(frag) == Contains(Lower(call.arg.device_id), frag)

\* The label by the device id, then by the signature columns, then Other.
HeuristicLabel ==
    IF IdNames(<<"s", "e", "n", "s", "e", "c", "a", "p">>) THEN "SenseCAP"
    ELSE IF IdNames(<<"d", "d", "s", "7", "5">>) THEN "DDS75-LB"
    ELSE IF IdNames(<<"p", "s", "-", "l", "b">>) THEN "PS-LB"
    ELSE IF \E c \in {"illumination", "uv_index", "wind_speed", "pressure_hpa"} :
               c \in Columns(DetectDf) THEN "SenseCAP"
    ELSE IF \E c \in {"distance_cm", "TempC_DS18B20", "Interrupt_flag"} :
               c \in Columns(DetectDf) THEN "DDS75-LB"
    ELSE IF \E c \in {"water_cm", "idc_input_ma", "vdc_input_v"} :
               c \in Columns(DetectDf) THEN "PS-LB"
    ELSE "Other"

\* C21: detect_sensor_type assigns the most recent non-null value of an
\* explicit type/model column when a column has one, otherwise the vendor
\* named in the device id, otherwise the vendor whose signature columns are
\* present, otherwise Other.
C21_StrictPriority ==
    DetectDone =>
        call.out =
            IF NonNull("node_type") # <<>> THEN MostRecent("node_type")
            ELSE IF NonNull("sensor_model") # <<>> THEN MostRecent("sensor_model")
            ELSE HeuristicLabel

\* C21 (amended): as C21, with a type/model column passed over when its
\* most recent non-null value is the empty text; the label is never empty.
C21_StrictPriorityNonEmpty ==
    DetectDone =>
        /\ call.out # ""
        /\ call.out =
            IF NonNull("node_type") # <<>> /\ MostRecent("node_type") # ""
            THEN MostRecent("node_type")
            ELSE IF NonNull("sensor_model") # <<>> /\ MostRecent("sensor_model") # ""
            THEN MostRecent("sensor_model")
            ELSE HeuristicLabel

\* The latest record has no node_type, the one before says S2120 and the
\* oldest LSN50, on a device whose id names another vendor: the label is
\* S2120.
C21_Witness ==
    /\ DetectDone
    /\ DetectDf.n = 2 \/ DetectDf.n = 3
    /\ "node_type" \in Columns(DetectDf)
    /\ Col(DetectDf, "node_type")[1] = Text("LSN50")
    /\ Col(DetectDf, "node_type")[2] = Text("S2120")
    /\ DetectDf.n = 3 => Col(DetectDf, "node_type")[3] = Null
    /\ IdNames(<<"d", "d", "s", "7", "5">>)
    /\ call.out = "S2120"

----------------------------------------------------------------------------
(* C22 *)

HealthDone == call.fn = "health"

\* C22: for every device row of the health report, the status is NO DATA
\* exactly when the device has no last-seen instant, STALE exactly when its
\* most recent record is older than STALE_HOURS, and OK otherwise; a device
\* whose overview status is error or empty is never reported as OK.
C22_HealthClassification ==
    HealthDone =>
        /\ Len(call.out) = Len(lp.overview_rows)
        /\ \A k \in 1..Len(call.out) :
              LET ov == lp.overview_rows[k]
                  h == call.out[k]
                  older == ov.last_seen_utc # NaT /\
                           call.arg - ov.last_seen_utc[1] > STALE_HOURS * 3600 * TicksPerSecond
              IN  /\ h.device_id = ov.device_id
                  /\ h.status = "NO DATA" <=> ov.last_seen_utc = NaT
                  /\ h.status = "STALE" <=> older
                  /\ h.status = "OK" <=> (ov.last_seen_utc # NaT /\ ~older)
                  /\ ov.status \in {"error", "empty"} => h.status # "OK"

\* What the report does: the age is taken from the last-seen instant cut to
\* the whole second; an empty device has NO DATA, and a device with status
\* error has NO DATA unless its iteration raised after last_ts was taken.
HealthByWholeSecond ==
    HealthDone =>
        \A k \in 1..Len(call.out) :
            LET ov == lp.overview_rows[k]
                h == call.out[k]
                older == ov.last_seen_utc # NaT /\
                         call.arg - FormatSeconds(ov.last_seen_utc[1]) >
                            STALE_HOURS * 3600 * TicksPerSecond
            IN  /\ h.status = "NO DATA" <=> ov.last_seen_utc = NaT
                /\ h.status = "STALE" <=> older
                /\ h.status = "OK" <=> (ov.last_seen_utc # NaT /\ ~older)
                /\ ov.status = "empty" => h.status = "NO DATA"
                /\ (ov.status = "error" /\ h.status # "NO DATA") =>
                      ov.last_seen_utc # NaT /\ ov.records = 0

----------------------------------------------------------------------------
(* C23 *)

\* device_pull gave up: a non-OK response after the fallbacks (line 251) or
\* an exception caught by the outer handler (line 350).
GaveUp == PullReturned /\ result.kind \in {"giveup", "fatal"}

\* The last request of the pull ended in a non-OK response with a body or
\* in an exception.
LastRequestFailed ==
    /\ reqlog # <<>>
    /\ \/ Last(reqlog).resp \in {"err", "exc"}
       \/ Last(reqlog).kind = "fb_noafter" /\ Got400(Last(reqlog))

\* C23: whenever device_pull gives up, it returns an empty table and the
\* persisted parquet and CSV history are exactly what they were before the
\* call, even if earlier pages of the same pull had been retrieved.
C23_FailedPullLeavesHistory ==
    /\ (PullReturned /\ LastRequestFailed) => GaveUp
    /\ GaveUp =>
          /\ result.df = <<>>
          /\ result.wp = "none" /\ result.wc = "none"
          /\ parq = old.parq
          /\ csv = old.csv

\* A pull over a stored history retrieved a full page, asked for the next
\* one, got a non-OK response and gave up: the rows retrieved are dropped
\* and both files are as they were.
C23_Witness ==
    /\ GaveUp
    /\ result.kind = "giveup"
    /\ all_rows # <<>>
    /\ Len(reqlog) >= 2
    /\ old.parq.st = "ok" /\ old.csv.st = "ok"
    /\ parq = old.parq /\ csv = old.csv

----------------------------------------------------------------------------
(* The page loop of one pull, from any cursor *)

\* device_pull at the head of its page loop (line 218): the server holds
\* finitely many records and does not change, the cursor is any instant,
\* sent or not, and nothing has been retrieved yet.
InitPaging ==
    /\ server \in {S \in SUBSET Uplinks : Cardinality(S) <= MaxServer}
    /\ parq = Missing
    /\ csv = Missing
    /\ AFTER = 0
    /\ pc = "get"
    /\ current_after \in 0..(MaxTs + TicksPerSecond)
    /\ used_after \in BOOLEAN
    /\ all_rows = <<>>
    /\ reqlog = <<>>
    /\ old = [parq |-> Missing, csv |-> Missing]
    /\ result = Returned("none", <<>>)
    /\ rt = RtIdle
    /\ mrg = MrgIdle
    /\ lp = LpIdle
    /\ call = CallIdle

NextPaging == PageRequest \/ FallbackLimit \/ FallbackNoAfter \/ Finish

\* The function is sequential code: while it has a next statement it
\* executes it, and every request returns or raises (_do_get_with_retries
\* makes a bounded number of attempts, each with a timeout).
SpecPaging == InitPaging /\ [][NextPaging]_vars /\ WF_vars(NextPaging)

----------------------------------------------------------------------------
(* C24 *)

\* C24: against a server that holds finitely many records and answers every
\* request with only records at or after the requested cursor (or with all
\* records when no cursor is sent), the page loop of device_pull eventually
\* stops and the function returns, for every interleaving of 400 responses
\* and fallbacks.  Every page that is followed by another request holds a
\* timestamped record later than all earlier ones, and the fallbacks add at
\* most two requests, so a pull makes at most as many requests as the server
\* holds records, plus three.
C24_PaginationTerminates ==
    /\ <>(pc = "idle")
    /\ [](Len(reqlog) <= Cardinality(server) + 3)

\* A pull that retrieved a full page, moved its cursor, met a 400 on the
\* next request, went through both fallbacks, and returned with a history.
C24_Witness ==
    /\ pc = "idle"
    /\ result.kind = "df"
    /\ Len(reqlog) = 4
    /\ reqlog[1].kind = "page" /\ reqlog[1].n = limit_primary
    /\ reqlog[2].kind = "page" /\ Got400(reqlog[2])
    /\ reqlog[3].kind = "fb_limit"
    /\ reqlog[4].kind = "fb_noafter"

====
